---- MODULE Spec2Model ----
(***************************************************************************)
(* snapwright: the browser pool manager (browser_manager.py), the          *)
(* screenshot cache (cache.py) and the capture orchestrator (core.py).     *)
(*                                                                         *)
(* SpecPool: BrowserManager under concurrent callers.  Every method is     *)
(* broken into the steps between which another thread can run (the class   *)
(* takes its lock only inside __new__); a step is named after the source   *)
(* line it executes.  SpecSerial: the same steps when the callers make     *)
(* their calls one after another.                                          *)
(*                                                                         *)
(* SpecKey: ScreenshotCache.get_cache_key applied to bounded arguments,    *)
(* with json.dumps and hashlib.md5 computed as Python computes them.       *)
(* SpecCache: the ScreenshotCache methods run one at a time over a cache   *)
(* directory, an index file and a clock, with file operations that can     *)
(* fail.                                                                   *)
(*                                                                         *)
(* SpecCapture: capture_screenshot, called twice by one thread, statement  *)
(* by statement; its get_context calls run the steps of SpecSerial, its    *)
(* cache calls the methods of SpecCache, and the renderer can fail at      *)
(* every call made of it; between the two calls a cached file may be      *)
(* deleted from outside.                                                   *)
(*                                                                         *)
(* SpecExtract: browse_and_extract, called by one thread, statement by     *)
(* statement, over a page of two elements, with the same get_context       *)
(* steps.  SpecBatch: the loop of batch_screenshots, with each             *)
(* capture_screenshot call taken as one step that returns a path, returns  *)
(* None or raises.                                                         *)
(***************************************************************************)
EXTENDS Integers, Sequences, FiniteSets, TLC

\* ------------------------------------------------------------------ bounds
\* threads calling into the manager, calls they make in all, the largest
\* max_contexts configured, the most pages open on one context
NThreads == 2
MaxCalls == 3
MaxK == 2
MaxPages == 2
\* changes a caller makes to its arguments or the viewport between two
\* get_cache_key calls
MaxChanges == 1
\* cache calls and outside events in all, the time to live (hours) when it
\* is not 0, the most hours that pass at once
MaxCacheOps == 3
MaxTtl == 2
MaxAdvance == 3
\* capture_screenshot: the largest max_retries
MaxRetries == 2
\* capture_screenshot: the selectors of wait_for when it is given
MaxWaits == 2

Threads == 1..NThreads
\* a call creates at most one context, one browser and one engine
CtxIds == 1..MaxCalls
EngineIds == 1..MaxCalls
BrowserIds == 1..MaxCalls

VARIABLES
    \* browser_config
    max_contexts,
    \* whether the callers make one call at a time
    serial,
    \* BrowserManager fields (None is 0)
    initialized, playwright, browser, contexts, hooks,
    \* the renderer: contexts, browsers and engines that exist
    nCreated, pages, closedCtx, ctxBrowser,
    nBrowsers, brEngine, closedBr,
    nEngines, stopped,
    \* each thread's call: method, position, locals, outcome
    nCalls, op, pc, kept, lbrowser, ret, exc,
    \* history: the pool as the call found it, whether anyone else has
    \* acted since, and whether an undisturbed reset() has just returned
    pre, clean, resetFresh,
    \* history: contexts created and engines started since the last cleanup
    since,
    \* browser_config: the viewport
    viewport_width, viewport_height,
    \* a caller's url and options, the get_cache_key calls made with them
    \* (arguments, viewport and result), the changes made between the calls
    argUrl, argOptions, called, nChanges,
    \* browser_config: the cache switch and the time to live
    cache_enabled, cache_ttl_hours,
    \* get_cache_key of each request (see CacheInit)
    keys,
    \* ScreenshotCache.metadata, the index file, the files of cache_dir,
    \* the caller's screenshot file, the clock (hours)
    metadata, persisted, files, shot, now,
    \* history: the cache calls and outside events so far (their number),
    \* the last two of them
    nOps, events,
    \* browser_config: the attempts capture_screenshot makes
    max_retries,
    \* capture_screenshot: the call in progress (position, arguments, locals,
    \* outcome, and what it has done so far), the call before it, the number
    \* of calls
    cap, prev, nCaptures,
    \* browse_and_extract: the call in progress (position, arguments, locals,
    \* the result dictionary, and what it has done so far)
    ext,
    \* batch_screenshots: the call in progress (position, arguments, locals,
    \* the results dictionary, and what it has done so far)
    bat,
    \* browser_config as BrowserConfig.update sees it: the attributes of the
    \* instance, and the last update call (arguments, attributes before it,
    \* what it raised)
    conf,
    \* the command line: the run in progress (position, arguments, what the
    \* captures gave, the exit code)
    cli

mgrVars == <<initialized, playwright, browser, contexts, hooks>>
ctxVars == <<nCreated, pages, closedCtx, ctxBrowser>>
engVars == <<nBrowsers, brEngine, closedBr, nEngines, stopped>>
locVars == <<kept, lbrowser, ret, exc>>
poolVars == <<max_contexts, serial, mgrVars, ctxVars, engVars, nCalls, op, pc,
              locVars, pre, clean, resetFresh, since>>
keyVars == <<viewport_width, viewport_height, argUrl, argOptions, called, nChanges>>
cacheVars == <<cache_enabled, cache_ttl_hours, keys, metadata, persisted, files,
               shot, now, nOps, events>>
capVars == <<max_retries, cap, prev, nCaptures>>
coreVars == <<ext, bat, conf, cli>>
\* what no BrowserManager method reads or writes
offPool == <<keyVars, cacheVars, capVars, coreVars>>
vars == <<poolVars, keyVars, cacheVars, capVars, coreVars>>

\* ------------------------------------------------------------ Python values
\* None, a bool, a str (its character codes) and a dict (its items, in
\* insertion order, as <<key, value>> pairs with str keys)
None == [t |-> "None"]
Bool(b) == [t |-> "bool", b |-> b]
Str(s) == [t |-> "str", s |-> s]
Dict(items) == [t |-> "dict", items |-> items]

\* a dict with no items
NoItems == [k \in {} |-> None]

\* the configured viewport, nobody computing a key
KeyAtRest ==
    /\ viewport_width = 1920
    /\ viewport_height = 1080
    /\ argUrl = <<>>
    /\ argOptions = None
    /\ called = <<>>
    /\ nChanges = 0

\* the configured cache, no ScreenshotCache in use
CacheAtRest ==
    /\ cache_enabled = TRUE
    /\ cache_ttl_hours = 6
    /\ keys = NoItems
    /\ metadata = NoItems
    /\ persisted = [ok |-> TRUE, index |-> NoItems]
    /\ files = NoItems
    /\ shot = 0
    /\ now = 0
    /\ nOps = 0
    /\ events = <<>>

\* a capture_screenshot call that has not begun: position, arguments (the
\* request, use_cache, whether wait_for and extra_wait were given, whether
\* output_path was found given on a hit), locals (attempt, context, page and whether it is open, cached),
\* what the try block ended with, the outcome; then history: the pool calls
\* made before it, whether the lookup hit, whether the loop was reached,
\* pages opened, navigations, attempts that failed outside BrowserError,
\* whether a screenshot was taken, whether its copy is in cache_dir, what
\* the returned file held, whether close() was called on the page, the
\* pages the call opened that are still open and those of them whose
\* close() raised, the first of the four capture errors raised, the
\* selectors waited for in this attempt, and the calls the latest attempt
\* made in their order ("!" marks one that raised)
NoCapture ==
    [pc |-> "idle", req |-> None, use_cache |-> FALSE, given |-> FALSE,
     wait_for |-> FALSE, extra_wait |-> FALSE, attempt |-> 0, ctx |-> 0,
     page |-> 0, open |-> FALSE, cached |-> None, pending |-> "none",
     ret |-> None, raised |-> "none",
     calls0 |-> 0, hit |-> FALSE, looped |-> FALSE, opened |-> 0, navs |-> 0,
     soft |-> 0, rendered |-> FALSE, stored |-> FALSE, art |-> 0,
     tried |-> FALSE, left |-> 0, lost |-> 0,
     hard |-> [kind |-> "none", attempt |-> 0, navs |-> 0],
     waited |-> 0, log |-> <<>>]

\* what is remembered of the call before: its request and use_cache, what
\* it returned or raised, what the returned file held, the get_context calls
\* it made, whether its lookup hit, whether its screenshot was copied into
\* cache_dir
NoCall ==
    [req |-> None, use_cache |-> FALSE, ret |-> None, raised |-> "none",
     art |-> 0, gets |-> 0, hit |-> FALSE, stored |-> FALSE]

\* the configured retries, nobody in capture_screenshot
CaptureAtRest ==
    /\ max_retries = 2
    /\ cap = NoCapture
    /\ prev = NoCall
    /\ nCaptures = 0

\* no browse_and_extract call yet: position, arguments (the names of
\* extract_selectors in the mapping's order), locals (context, page and whether it is open), the result
\* (extracted as the (name, value) items in insertion order, screenshot,
\* error), and history: the exception that left the call, what each query
\* of the loop met, the step that raised into the outer handler, whether
\* close() was called on the page, the pages opened that are still open and
\* those of them whose close() raised
NoExtract ==
    [pc |-> "idle", fields |-> <<>>, ctx |-> 0, page |-> 0, open |-> FALSE,
     extracted |-> <<>>, shot |-> None, error |-> None,
     raised |-> "none", seen |-> <<>>, failed |-> "none",
     tried |-> FALSE, left |-> 0, lost |-> 0]

\* no batch_screenshots call yet: position, arguments (urls, whether
\* delay_between is positive), the loop index, results as the (url, value)
\* items in insertion order, and history: the exception that left the call,
\* the step it left from, what each capture_screenshot call ended with, and
\* the captures and sleeps in the order they were made
NoBatch ==
    [pc |-> "idle", urls |-> <<>>, delay |-> FALSE, i |-> 0, results |-> <<>>,
     raised |-> "none", failed |-> "none", outs |-> <<>>, log |-> <<>>]

\* the options of BrowserConfig that are followed, with the values
\* from_env gives them in an empty environment (headless as 0 or 1)
Defaults == [headless |-> 1, max_retries |-> 2]

\* the names hasattr finds on the instance that are no options: its methods
\* (an attribute that still is the method of the class holds -1)
Methods == {"update", "from_env"}

\* browser_config after `browser_config = BrowserConfig.from_env()`, no
\* update call made yet
NoUpdate ==
    [attrs |-> [k \in DOMAIN Defaults \cup Methods |->
                   IF k \in Methods THEN -1 ELSE Defaults[k]],
     kwargs |-> <<>>, raised |-> "none",
     before |-> [k \in DOMAIN Defaults \cup Methods |->
                    IF k \in Methods THEN -1 ELSE Defaults[k]]]

\* no command line run yet
NoCli ==
    [pc |-> "idle", mode |-> "none", urls |-> <<>>, got |-> "none",
     interrupted |-> FALSE, code |-> -1]

CoreAtRest == ext = NoExtract /\ bat = NoBatch /\ conf = NoUpdate /\ cli = NoCli

\* ------------------------------------------------------------ pure helpers
Range(s) == {s[i] : i \in 1..Len(s)}

RECURSIVE Filter(_, _)
\* [ctx for ctx in s if ctx.pages], with page counts pg
Filter(s, pg) ==
    IF s = <<>> THEN <<>>
    ELSE IF pg[Head(s)] > 0 THEN <<Head(s)>> \o Filter(Tail(s), pg)
    ELSE Filter(Tail(s), pg)

\* the first context of s with no open page, 0 when there is none
FirstIdle(s, pg) ==
    IF \E i \in 1..Len(s) : pg[s[i]] = 0
    THEN s[CHOOSE i \in 1..Len(s) :
              /\ pg[s[i]] = 0
              /\ \A j \in 1..(i - 1) : pg[s[j]] # 0]
    ELSE 0

\* mutant of LeastBusy: the first tracked context, whatever its load
LeastBusyFirst(s, pg) == s[1]

\* min(s, key=lambda c: len(c.pages)): the first element with the least pages
LeastBusy(s, pg) ==
    s[CHOOSE i \in 1..Len(s) :
          /\ \A j \in 1..Len(s) : pg[s[i]] <= pg[s[j]]
          /\ \A j \in 1..(i - 1) : pg[s[j]] > pg[s[i]]]

\* the tracked contexts that are open and have no open page
IdleTracked == {c \in Range(contexts) : c \notin closedCtx /\ pages[c] = 0}

\* max_contexts contexts are tracked and every one has an open page
AllBusyAtCap ==
    /\ Len(contexts) = max_contexts
    /\ \A c \in Range(contexts) : pages[c] > 0

\* what a call remembers of the pool as it found it
Snapshot ==
    [nCreated |-> nCreated, nEngines |-> nEngines, idle |-> IdleTracked,
     atCap |-> AllBusyAtCap,
     clear |-> (contexts = <<>> /\ browser = 0 /\ playwright = 0),
     afterReset |-> resetFresh, engine |-> playwright]

NoPre ==
    [nCreated |-> 0, nEngines |-> 0, idle |-> {}, atCap |-> FALSE,
     clear |-> FALSE, afterReset |-> FALSE, engine |-> 0]

\* ------------------------------------------------------------------- Init
\* The state after `browser_manager = BrowserManager()` at import: __new__
\* made the instance under the lock, __init__ ran once.
PoolState ==
    /\ max_contexts \in 1..MaxK
    /\ initialized = TRUE
    /\ playwright = 0
    /\ browser = 0
    /\ contexts = <<>>
    /\ hooks = 1
    /\ nCreated = 0
    /\ pages = [c \in CtxIds |-> 0]
    /\ closedCtx = {}
    /\ ctxBrowser = [c \in CtxIds |-> 0]
    /\ nBrowsers = 0
    /\ brEngine = [b \in BrowserIds |-> 0]
    /\ closedBr = {}
    /\ nEngines = 0
    /\ stopped = {}
    /\ nCalls = 0
    /\ op = [t \in Threads |-> "none"]
    /\ pc = [t \in Threads |-> "idle"]
    /\ kept = [t \in Threads |-> <<>>]
    /\ lbrowser = [t \in Threads |-> 0]
    /\ ret = [t \in Threads |-> 0]
    /\ exc = [t \in Threads |-> "none"]
    /\ pre = [t \in Threads |-> NoPre]
    /\ clean = [t \in Threads |-> TRUE]
    /\ resetFresh = FALSE
    /\ since = [contexts |-> 0, engines |-> 0]

PoolInit == PoolState /\ serial = FALSE /\ KeyAtRest /\ CacheAtRest /\ CaptureAtRest /\ CoreAtRest

SerialInit == PoolState /\ serial = TRUE /\ KeyAtRest /\ CacheAtRest /\ CaptureAtRest /\ CoreAtRest

\* the manager as imported, no caller
PoolAtRest == PoolState /\ serial = TRUE /\ max_contexts = MaxK

\* --------------------------------------------------------- step bookkeeping
\* Thread t (0: a caller working on a context it holds) acts: every other
\* thread that is inside a call has now been interleaved with.
Interfere(t) ==
    [u \in Threads |-> IF u # t /\ pc[u] # "idle" THEN FALSE ELSE clean[u]]

Step(t, to, fresh) ==
    /\ pc' = [pc EXCEPT ![t] = to]
    /\ clean' = Interfere(t)
    /\ resetFresh' = fresh
    /\ UNCHANGED <<offPool, max_contexts, serial, nCalls, op, pre>>

Goto(t, to) == Step(t, to, FALSE) /\ UNCHANGED since

Call(t, method, first) ==
    /\ pc[t] = "idle"
    /\ serial => \A u \in Threads : pc[u] = "idle"
    /\ nCalls < MaxCalls
    /\ nCalls' = nCalls + 1
    /\ op' = [op EXCEPT ![t] = method]
    /\ pc' = [pc EXCEPT ![t] = first]
    /\ pre' = [pre EXCEPT ![t] = Snapshot]
    /\ clean' = Interfere(t)
    /\ resetFresh' = FALSE
    /\ UNCHANGED <<offPool, max_contexts, serial, mgrVars, ctxVars, engVars, locVars, since>>

\* the call returns (or has raised) to its caller
Return(t) ==
    /\ pc[t] = "done"
    /\ op' = [op EXCEPT ![t] = "none"]
    /\ pc' = [pc EXCEPT ![t] = "idle"]
    /\ kept' = [kept EXCEPT ![t] = <<>>]
    /\ lbrowser' = [lbrowser EXCEPT ![t] = 0]
    /\ ret' = [ret EXCEPT ![t] = 0]
    /\ exc' = [exc EXCEPT ![t] = "none"]
    /\ pre' = [pre EXCEPT ![t] = NoPre]
    /\ clean' = [clean EXCEPT ![t] = TRUE]
    /\ UNCHANGED <<offPool, max_contexts, serial, mgrVars, ctxVars, engVars, nCalls,
                   resetFresh, since>>

\* ------------------------------------------------------------ get_context
CallGetContext(t) == Call(t, "get_context", "gc59")

\* line 59, right-hand side: the comprehension over the list and its pages
GetContextPrune(t) ==
    /\ pc[t] = "gc59"
    /\ kept' = [kept EXCEPT ![t] = Filter(contexts, pages)]
    /\ Goto(t, "gc59w")
    /\ UNCHANGED <<mgrVars, ctxVars, engVars, lbrowser, ret, exc>>

\* line 59, the assignment to self.contexts
GetContextStore(t) ==
    /\ pc[t] = "gc59w"
    /\ contexts' = kept[t]
    /\ Goto(t, "gc62")
    /\ UNCHANGED <<initialized, playwright, browser, hooks, ctxVars, engVars,
                   locVars>>

\* lines 62-64: the reuse loop
GetContextReuse(t) ==
    /\ pc[t] = "gc62"
    /\ IF FirstIdle(contexts, pages) # 0
       THEN /\ ret' = [ret EXCEPT ![t] = FirstIdle(contexts, pages)]
            /\ Goto(t, "done")
       ELSE /\ ret' = ret
            /\ Goto(t, "gc67")
    /\ UNCHANGED <<mgrVars, ctxVars, engVars, kept, lbrowser, exc>>

\* line 67: the cap test
UnderLimit(n, k) == n < k

GetContextLimit(t) ==
    /\ pc[t] = "gc67"
    /\ IF UnderLimit(Len(contexts), max_contexts)
       THEN Goto(t, "gb44")
       ELSE Goto(t, "gc86")
    /\ UNCHANGED <<mgrVars, ctxVars, engVars, locVars>>

\* lines 69-83: browser.new_context(...), append, return
GetContextCreate(t) ==
    /\ pc[t] = "gc69"
    /\ \/ /\ lbrowser[t] = 0
          /\ exc' = [exc EXCEPT ![t] = "AttributeError"]
          /\ UNCHANGED <<contexts, ctxVars, ret, since>>
       \/ /\ lbrowser[t] # 0
          /\ lbrowser[t] \in closedBr
          /\ exc' = [exc EXCEPT ![t] = "Error"]
          /\ UNCHANGED <<contexts, ctxVars, ret, since>>
       \/ /\ lbrowser[t] # 0
          /\ lbrowser[t] \notin closedBr
          /\ nCreated' = nCreated + 1
          /\ ctxBrowser' = [ctxBrowser EXCEPT ![nCreated + 1] = lbrowser[t]]
          /\ contexts' = Append(contexts, nCreated + 1)
          /\ ret' = [ret EXCEPT ![t] = nCreated + 1]
          /\ since' = [since EXCEPT !.contexts = since.contexts + 1]
          /\ UNCHANGED <<pages, closedCtx, exc>>
    /\ Step(t, "done", FALSE)
    /\ UNCHANGED <<initialized, playwright, browser, hooks, engVars, kept,
                   lbrowser>>

\* line 86: min() over the tracked contexts; ValueError on an empty list
GetContextLeastBusy(t) ==
    /\ pc[t] = "gc86"
    /\ IF contexts = <<>>
       THEN /\ exc' = [exc EXCEPT ![t] = "ValueError"]
            /\ ret' = ret
       ELSE /\ ret' = [ret EXCEPT ![t] = LeastBusy(contexts, pages)]
            /\ exc' = exc
    /\ Goto(t, "done")
    /\ UNCHANGED <<mgrVars, ctxVars, engVars, kept, lbrowser>>

\* ------------------------------------------------------------ get_browser
CallGetBrowser(t) == Call(t, "get_browser", "gb44")

\* where get_browser returns to: line 69 of get_context, or its own caller
AfterGetBrowser(t) == IF op[t] = "get_context" THEN "gc69" ELSE "done"

\* line 44, and line 54 when a browser is already there
GetBrowserCheck(t) ==
    /\ pc[t] = "gb44"
    /\ IF browser = 0
       THEN /\ Goto(t, "gb47")
            /\ UNCHANGED <<lbrowser, ret>>
       ELSE /\ lbrowser' = [lbrowser EXCEPT ![t] = browser]
            /\ ret' = [ret EXCEPT ![t] =
                          IF op[t] = "get_browser" THEN browser ELSE ret[t]]
            /\ Goto(t, AfterGetBrowser(t))
    /\ UNCHANGED <<mgrVars, ctxVars, engVars, kept, exc>>

\* line 47: self.playwright = sync_playwright().start()
GetBrowserStart(t) ==
    /\ pc[t] = "gb47"
    /\ nEngines' = nEngines + 1
    /\ playwright' = nEngines + 1
    /\ since' = [since EXCEPT !.engines = since.engines + 1]
    /\ Step(t, "gb48", FALSE)
    /\ UNCHANGED <<initialized, browser, contexts, hooks, ctxVars, nBrowsers,
                   brEngine, closedBr, stopped, locVars>>

\* lines 48-53: self.browser = self.playwright.chromium.launch(...), which
\* may fail with a playwright Error, re-raised as BrowserError
GetBrowserLaunch(t) ==
    /\ pc[t] = "gb48"
    /\ \/ /\ playwright # 0
          /\ playwright \notin stopped
          /\ nBrowsers' = nBrowsers + 1
          /\ brEngine' = [brEngine EXCEPT ![nBrowsers + 1] = playwright]
          /\ browser' = nBrowsers + 1
          /\ Goto(t, "gb54")
          /\ UNCHANGED exc
       \/ /\ playwright # 0
          /\ exc' = [exc EXCEPT ![t] = "BrowserError"]
          /\ Goto(t, "done")
          /\ UNCHANGED <<nBrowsers, brEngine, browser>>
       \/ /\ playwright = 0
          /\ exc' = [exc EXCEPT ![t] = "AttributeError"]
          /\ Goto(t, "done")
          /\ UNCHANGED <<nBrowsers, brEngine, browser>>
    /\ UNCHANGED <<initialized, playwright, contexts, hooks, ctxVars,
                   closedBr, nEngines, stopped, kept, lbrowser, ret>>

\* line 54: return self.browser
GetBrowserReturn(t) ==
    /\ pc[t] = "gb54"
    /\ lbrowser' = [lbrowser EXCEPT ![t] = browser]
    /\ ret' = [ret EXCEPT ![t] =
                  IF op[t] = "get_browser" THEN browser ELSE ret[t]]
    /\ Goto(t, AfterGetBrowser(t))
    /\ UNCHANGED <<mgrVars, ctxVars, engVars, kept, exc>>

\* ---------------------------------------------------------------- cleanup
CallCleanup(t) == Call(t, "cleanup", "cl93")

\* the contexts of browsers bs, and the browsers of engines es
ContextsOf(bs) == {c \in 1..nCreated : ctxBrowser[c] \in bs}
BrowsersOf(es) == {b \in 1..nBrowsers : brEngine[b] \in es}

\* lines 93-97: close every tracked context; a close that raises is logged
\* and leaves that context as it was (failed: the contexts whose close raises)
CleanupContexts(t) ==
    /\ pc[t] = "cl93"
    /\ \E failed \in SUBSET Range(contexts) :
          LET done == Range(contexts) \ failed IN
          /\ closedCtx' = closedCtx \cup done
          /\ pages' = [c \in CtxIds |-> IF c \in done THEN 0 ELSE pages[c]]
    /\ Goto(t, "cl100")
    /\ UNCHANGED <<mgrVars, nCreated, ctxBrowser, engVars, locVars>>

\* lines 100-104: close the browser, which closes its contexts
CleanupBrowser(t) ==
    /\ pc[t] = "cl100"
    /\ \/ /\ browser # 0
          /\ closedBr' = closedBr \cup {browser}
          /\ closedCtx' = closedCtx \cup ContextsOf({browser})
          /\ pages' = [c \in CtxIds |->
                          IF c \in ContextsOf({browser}) THEN 0 ELSE pages[c]]
       \/ /\ browser # 0
          /\ UNCHANGED <<closedBr, closedCtx, pages>>
       \/ /\ browser = 0
          /\ UNCHANGED <<closedBr, closedCtx, pages>>
    /\ Goto(t, "cl107")
    /\ UNCHANGED <<mgrVars, nCreated, ctxBrowser, nBrowsers, brEngine,
                   nEngines, stopped, locVars>>

\* lines 107-111: stop the engine, which ends its browsers and their contexts
CleanupPlaywright(t) ==
    /\ pc[t] = "cl107"
    /\ \/ /\ playwright # 0
          /\ stopped' = stopped \cup {playwright}
          /\ closedBr' = closedBr \cup BrowsersOf({playwright})
          /\ closedCtx' = closedCtx \cup ContextsOf(BrowsersOf({playwright}))
          /\ pages' = [c \in CtxIds |->
                          IF c \in ContextsOf(BrowsersOf({playwright}))
                          THEN 0 ELSE pages[c]]
       \/ /\ playwright # 0
          /\ UNCHANGED <<stopped, closedBr, closedCtx, pages>>
       \/ /\ playwright = 0
          /\ UNCHANGED <<stopped, closedBr, closedCtx, pages>>
    /\ Goto(t, "cl113")
    /\ UNCHANGED <<mgrVars, nCreated, ctxBrowser, nBrowsers, brEngine,
                   nEngines, locVars>>

\* mutant of CleanupClear: the browser handle is kept
CleanupKeepsBrowser(t) ==
    /\ pc[t] = "cl113"
    /\ contexts' = <<>>
    /\ playwright' = 0
    /\ since' = [contexts |-> 0, engines |-> 0]
    /\ Step(t, IF op[t] = "reset" THEN "rs120" ELSE "done", FALSE)
    /\ UNCHANGED <<initialized, browser, hooks, ctxVars, engVars, locVars>>

\* lines 113-115: forget everything
CleanupClear(t) ==
    /\ pc[t] = "cl113"
    /\ contexts' = <<>>
    /\ browser' = 0
    /\ playwright' = 0
    /\ since' = [contexts |-> 0, engines |-> 0]
    /\ Step(t, IF op[t] = "reset" THEN "rs120" ELSE "done", FALSE)
    /\ UNCHANGED <<initialized, hooks, ctxVars, engVars, locVars>>

\* ------------------------------------------------------------------ reset
\* line 119: self.cleanup()
CallReset(t) == Call(t, "reset", "cl93")

\* line 120: self._initialized = False; line 121 calls __init__
ResetFlag(t) ==
    /\ pc[t] = "rs120"
    /\ initialized' = FALSE
    /\ Goto(t, "init31")
    /\ UNCHANGED <<playwright, browser, contexts, hooks, ctxVars, engVars,
                   locVars>>

\* --------------------------------------------------- __new__ and __init__
\* BrowserManager(): __new__ finds _instance set (lines 23, 28) and returns
\* it; __init__ is then called on it
CallConstruct(t) == Call(t, "construct", "init31")

\* mutant of InitCheck: the guard inverted
InitCheckInverted(t) ==
    /\ pc[t] = "init31"
    /\ IF ~initialized THEN Goto(t, "done") ELSE Goto(t, "init34")
    /\ UNCHANGED <<mgrVars, ctxVars, engVars, locVars>>

\* lines 31-32
InitCheck(t) ==
    /\ pc[t] = "init31"
    /\ IF initialized THEN Goto(t, "done") ELSE Goto(t, "init34")
    /\ UNCHANGED <<mgrVars, ctxVars, engVars, locVars>>

\* lines 34-37
InitFields(t) ==
    /\ pc[t] = "init34"
    /\ playwright' = 0
    /\ browser' = 0
    /\ contexts' = <<>>
    /\ initialized' = TRUE
    /\ Goto(t, "init40")
    /\ UNCHANGED <<hooks, ctxVars, engVars, locVars>>

\* line 40: atexit.register(self.cleanup)
InitRegister(t) ==
    /\ pc[t] = "init40"
    /\ hooks' = hooks + 1
    /\ Step(t, "done", op[t] = "reset" /\ clean[t])
    /\ UNCHANGED since
    /\ UNCHANGED <<initialized, playwright, browser, contexts, ctxVars,
                   engVars, locVars>>

\* ------------------------------------------------- pages, by the callers
\* context.new_page() on a context that is still open (core.py opens one
\* page per attempt on the context get_context returned)
OpenPage(c) ==
    /\ c \in 1..nCreated
    /\ c \notin closedCtx
    /\ pages[c] < MaxPages
    /\ pages' = [pages EXCEPT ![c] = pages[c] + 1]
    /\ clean' = Interfere(0)
    /\ UNCHANGED <<offPool, max_contexts, serial, mgrVars, nCreated, closedCtx, ctxBrowser,
                   engVars, nCalls, op, pc, locVars, pre, resetFresh, since>>

\* page.close()
ClosePage(c) ==
    /\ c \in 1..nCreated
    /\ pages[c] > 0
    /\ pages' = [pages EXCEPT ![c] = pages[c] - 1]
    /\ clean' = Interfere(0)
    /\ UNCHANGED <<offPool, max_contexts, serial, mgrVars, nCreated, closedCtx, ctxBrowser,
                   engVars, nCalls, op, pc, locVars, pre, resetFresh, since>>

\* ------------------------------------------------------------------- Next
PoolNext ==
    \/ \E t \in Threads : CallGetContext(t)
    \/ \E t \in Threads : GetContextPrune(t)
    \/ \E t \in Threads : GetContextStore(t)
    \/ \E t \in Threads : GetContextReuse(t)
    \/ \E t \in Threads : GetContextLimit(t)
    \/ \E t \in Threads : GetContextCreate(t)
    \/ \E t \in Threads : GetContextLeastBusy(t)
    \/ \E t \in Threads : CallGetBrowser(t)
    \/ \E t \in Threads : GetBrowserCheck(t)
    \/ \E t \in Threads : GetBrowserStart(t)
    \/ \E t \in Threads : GetBrowserLaunch(t)
    \/ \E t \in Threads : GetBrowserReturn(t)
    \/ \E t \in Threads : CallCleanup(t)
    \/ \E t \in Threads : CleanupContexts(t)
    \/ \E t \in Threads : CleanupBrowser(t)
    \/ \E t \in Threads : CleanupPlaywright(t)
    \/ \E t \in Threads : CleanupClear(t)
    \/ \E t \in Threads : CallReset(t)
    \/ \E t \in Threads : ResetFlag(t)
    \/ \E t \in Threads : CallConstruct(t)
    \/ \E t \in Threads : InitCheck(t)
    \/ \E t \in Threads : InitFields(t)
    \/ \E t \in Threads : InitRegister(t)
    \/ \E t \in Threads : Return(t)
    \/ \E c \in CtxIds : OpenPage(c)
    \/ \E c \in CtxIds : ClosePage(c)

SpecPool == PoolInit /\ [][PoolNext]_vars

SpecSerial == SerialInit /\ [][PoolNext]_vars

\* ------------------------------------------------------------ pool claims
\* a call of `method` by t has returned or raised and nobody else has acted
\* since it began
Finished(t, method) == op[t] = method /\ pc[t] = "done" /\ clean[t]

\* C1: with max_contexts = K, however many get_context() calls are made and
\* however they interleave with each other and with pages opening and
\* closing, the pool creates at most K contexts (between two cleanups), and
\* every call returns a context, unless the engine fails to launch or a
\* concurrent cleanup() has taken the browser away.
C1_AtMostKCreated ==
    /\ since.contexts <= max_contexts
    /\ \A t \in Threads :
          (op[t] = "get_context" /\ pc[t] = "done") =>
              /\ exc[t] \in {"none", "BrowserError", "Error", "AttributeError"}
              /\ exc[t] = "none" => ret[t] \in 1..nCreated

\* C2: the manager never tracks more than max_contexts contexts.
C2_TrackedWithinCap == Len(contexts) <= max_contexts

\* C3: between two cleanups the engine is started at most once, whatever
\* the interleaving of get_browser() and get_context() callers.
C3_EngineStartedOnce == since.engines <= 1

\* C4: a BrowserManager() construction after the first one leaves the
\* manager's state alone: it does not run the initialisation again, so it
\* neither drops tracked contexts or the engine handles nor registers the
\* exit hook again.
C4_ConstructionKeepsState ==
    [][\A t \in Threads :
          (op[t] = "construct" /\ pc'[t] # pc[t]) =>
              (contexts # <<>> => contexts' = contexts)]_poolVars

\* C5: a get_context() call that finds a tracked, open context without
\* pages returns one of those contexts and creates nothing.
C5_ReusesIdleContext ==
    \A t \in Threads :
        (Finished(t, "get_context") /\ pre[t].idle # {}) =>
            /\ exc[t] = "none"
            /\ ret[t] \in pre[t].idle
            /\ nCreated = pre[t].nCreated

\* C6: a get_context() call that finds max_contexts tracked contexts, each
\* with an open page, never reaches the creation path, creates nothing and
\* returns a tracked context with the fewest open pages.
C6_LeastLoadedAtCap ==
    \A t \in Threads :
        (op[t] = "get_context" /\ clean[t] /\ pre[t].atCap) =>
            /\ pc[t] \notin {"gb44", "gb47", "gb48", "gb54", "gc69"}
            /\ nCreated = pre[t].nCreated
            /\ pc[t] = "done" =>
                  /\ exc[t] = "none"
                  /\ ret[t] \in Range(contexts)
                  /\ \A c \in Range(contexts) : pages[ret[t]] <= pages[c]

\* three calls: two contexts created and given pages, the first made the
\* busier one, and the third call returns the second
C6_Witness ==
    \E t \in Threads :
        /\ Finished(t, "get_context")
        /\ pre[t].atCap
        /\ Len(contexts) = 2
        /\ pages[contexts[1]] > pages[contexts[2]]
        /\ ret[t] = contexts[2]

\* C7: cleanup() does not raise and leaves no tracked context, no browser
\* and no engine handle, also when closing a context, the browser or the
\* engine fails; a cleanup() that finds the pool already cleared changes
\* nothing at all.
C7_CleanupClears ==
    /\ [](\A t \in Threads :
            Finished(t, "cleanup") =>
                /\ exc[t] = "none"
                /\ contexts = <<>>
                /\ browser = 0
                /\ playwright = 0)
    /\ [][\A t \in Threads :
            (op[t] = "cleanup" /\ clean[t] /\ pre[t].clear
                 /\ pc[t] # "done" /\ pc'[t] # pc[t]) =>
                UNCHANGED <<mgrVars, ctxVars, engVars>>]_poolVars

\* a cleanup that found a tracked context whose close failed, as did the
\* browser's and the engine's: it still cleared the manager
C7_Witness ==
    \E t \in Threads :
        /\ Finished(t, "cleanup")
        /\ pre[t].nEngines > 0
        /\ pre[t].idle \ closedCtx # {}

C35_EnginesStopped ==
    \A t \in Threads :
        Finished(t, "cleanup") =>
            \A e \in 1..nEngines : e \in stopped \/ e = pre[t].engine

\* ---------------------------------------------------------------- cache key
\* str(n) for an int n >= 0
RECURSIVE DecStr(_)
DecStr(n) == IF n < 10 THEN <<48 + n>> ELSE DecStr(n \div 10) \o <<48 + (n % 10)>>

\* f"{width}x{height}"
FormatViewport(w, h) == DecStr(w) \o <<120>> \o DecStr(h)

\* json.dumps of a str of printable ASCII: quoted, with " and \ escaped
EscapeChar(c) == IF c = 34 THEN <<92, 34>> ELSE IF c = 92 THEN <<92, 92>> ELSE <<c>>

RECURSIVE EscapeStr(_)
EscapeStr(s) == IF s = <<>> THEN <<>> ELSE EscapeChar(Head(s)) \o EscapeStr(Tail(s))

JsonStr(s) == <<34>> \o EscapeStr(s) \o <<34>>

\* a < b for two str, as Python orders them
RECURSIVE LexLess(_, _)
LexLess(a, b) ==
    IF b = <<>> THEN FALSE
    ELSE IF a = <<>> THEN TRUE
    ELSE IF Head(a) # Head(b) THEN Head(a) < Head(b)
    ELSE LexLess(Tail(a), Tail(b))

\* item put into items (sorted by key) at its place
RECURSIVE InsertItem(_, _)
InsertItem(item, items) ==
    IF items = <<>> THEN <<item>>
    ELSE IF LexLess(item[1], Head(items)[1]) THEN <<item>> \o items
    ELSE <<Head(items)>> \o InsertItem(item, Tail(items))

\* sort_keys=True: the items of a dict ordered by key
RECURSIVE SortItems(_)
SortItems(items) ==
    IF items = <<>> THEN <<>>
    ELSE InsertItem(Head(items), SortItems(Tail(items)))

\* json.dumps(v, sort_keys=True) with the default separators
RECURSIVE JsonDumps(_)
RECURSIVE JsonItems(_)
JsonDumps(v) ==
    CASE v.t = "None" -> <<110, 117, 108, 108>>
      [] v.t = "bool" -> IF v.b THEN <<116, 114, 117, 101>> ELSE <<102, 97, 108, 115, 101>>
      [] v.t = "str" -> JsonStr(v.s)
      [] v.t = "dict" -> <<123>> \o JsonItems(SortItems(v.items)) \o <<125>>

JsonItems(items) ==
    IF items = <<>> THEN <<>>
    ELSE JsonStr(items[1][1]) \o <<58, 32>> \o JsonDumps(items[1][2])
         \o (IF Len(items) > 1 THEN <<44, 32>> \o JsonItems(Tail(items)) ELSE <<>>)

\* `options or {}`: None and the empty dict are both false
OrEmpty(options) ==
    IF options.t = "None" \/ (options.t = "dict" /\ options.items = <<>>)
    THEN Dict(<<>>)
    ELSE options

\* key_data without the viewport
KeyDataWithoutViewport(url, options) ==
    Dict(<< <<<<117, 114, 108>>, Str(url)>>, <<<<111, 112, 116, 105, 111, 110, 115>>, OrEmpty(options)>> >>)

\* key_data of get_cache_key
KeyData(url, options) ==
    Dict(<< <<<<117, 114, 108>>, Str(url)>>,
            <<<<111, 112, 116, 105, 111, 110, 115>>, OrEmpty(options)>>,
            <<<<118, 105, 101, 119, 112, 111, 114, 116>>, Str(FormatViewport(viewport_width, viewport_height))>> >>)

\* ------------------------------------------------------------- hashlib.md5
\* MD5 (RFC 1321) on 32-bit words kept as <<high 16 bits, low 16 bits>>
AndNibble ==
    <<<<0, 0, 0, 0, 0, 0, 0, 0, 0, 0, 0, 0, 0, 0, 0, 0>>,
      <<0, 1, 0, 1, 0, 1, 0, 1, 0, 1, 0, 1, 0, 1, 0, 1>>,
      <<0, 0, 2, 2, 0, 0, 2, 2, 0, 0, 2, 2, 0, 0, 2, 2>>,
      <<0, 1, 2, 3, 0, 1, 2, 3, 0, 1, 2, 3, 0, 1, 2, 3>>,
      <<0, 0, 0, 0, 4, 4, 4, 4, 0, 0, 0, 0, 4, 4, 4, 4>>,
      <<0, 1, 0, 1, 4, 5, 4, 5, 0, 1, 0, 1, 4, 5, 4, 5>>,
      <<0, 0, 2, 2, 4, 4, 6, 6, 0, 0, 2, 2, 4, 4, 6, 6>>,
      <<0, 1, 2, 3, 4, 5, 6, 7, 0, 1, 2, 3, 4, 5, 6, 7>>,
      <<0, 0, 0, 0, 0, 0, 0, 0, 8, 8, 8, 8, 8, 8, 8, 8>>,
      <<0, 1, 0, 1, 0, 1, 0, 1, 8, 9, 8, 9, 8, 9, 8, 9>>,
      <<0, 0, 2, 2, 0, 0, 2, 2, 8, 8, 10, 10, 8, 8, 10, 10>>,
      <<0, 1, 2, 3, 0, 1, 2, 3, 8, 9, 10, 11, 8, 9, 10, 11>>,
      <<0, 0, 0, 0, 4, 4, 4, 4, 8, 8, 8, 8, 12, 12, 12, 12>>,
      <<0, 1, 0, 1, 4, 5, 4, 5, 8, 9, 8, 9, 12, 13, 12, 13>>,
      <<0, 0, 2, 2, 4, 4, 6, 6, 8, 8, 10, 10, 12, 12, 14, 14>>,
      <<0, 1, 2, 3, 4, 5, 6, 7, 8, 9, 10, 11, 12, 13, 14, 15>>>>

\* x & y for 16-bit x, y
And16(x, y) ==
      AndNibble[(x % 16) + 1][(y % 16) + 1]
    + 16 * AndNibble[((x \div 16) % 16) + 1][((y \div 16) % 16) + 1]
    + 256 * AndNibble[((x \div 256) % 16) + 1][((y \div 256) % 16) + 1]
    + 4096 * AndNibble[(x \div 4096) + 1][(y \div 4096) + 1]

\* 32-bit words are <<high half, low half>>
WAnd(a, b) == <<And16(a[1], b[1]), And16(a[2], b[2])>>
WNot(a) == <<65535 - a[1], 65535 - a[2]>>
WOr(a, b) == <<a[1] + b[1] - And16(a[1], b[1]), a[2] + b[2] - And16(a[2], b[2])>>
WXor(a, b) == <<a[1] + b[1] - 2 * And16(a[1], b[1]), a[2] + b[2] - 2 * And16(a[2], b[2])>>
WAdd(a, b) ==
    LET lo == a[2] + b[2]
    IN <<(a[1] + b[1] + (lo \div 65536)) % 65536, lo % 65536>>
Pow2(n) == 2 ^ n
\* rotate left by n, 0 < n < 32
WRotl(a, n) ==
    LET x == IF n >= 16 THEN <<a[2], a[1]>> ELSE a
        k == n % 16
    IN IF k = 0 THEN x
       ELSE <<((x[1] * Pow2(k)) % 65536) + (x[2] \div Pow2(16 - k)),
              ((x[2] * Pow2(k)) % 65536) + (x[1] \div Pow2(16 - k))>>

MD5K == <<<<55146, 42104>>, <<59591, 46934>>, <<9248, 28891>>, <<49597, 52974>>, <<62844, 4015>>, <<18311, 50730>>, <<43056, 17939>>, <<64838, 38145>>, <<27008, 39128>>, <<35652, 63407>>, <<65535, 23473>>, <<35164, 55230>>, <<27536, 4386>>, <<64920, 29075>>, <<42617, 17294>>, <<18868, 2081>>, <<63006, 9570>>, <<49216, 45888>>, <<9822, 23121>>, <<59830, 51114>>, <<54831, 4189>>, <<580, 5203>>, <<55457, 59009>>, <<59347, 64456>>, <<8673, 52710>>, <<49975, 2006>>, <<62677, 3463>>, <<17754, 5357>>, <<43491, 59653>>, <<64751, 41976>>, <<26479, 729>>, <<36138, 19594>>, <<65530, 14658>>, <<34673, 63105>>, <<28061, 24866>>, <<64997, 14348>>, <<42174, 59972>>, <<19422, 53161>>, <<63163, 19296>>, <<48831, 48240>>, <<10395, 32454>>, <<60065, 10234>>, <<54511, 12421>>, <<1160, 7429>>, <<55764, 53305>>, <<59099, 39397>>, <<8098, 31992>>, <<50348, 22117>>, <<62505, 8772>>, <<17194, 65431>>, <<43924, 9127>>, <<64659, 41017>>, <<25947, 22979>>, <<36620, 52370>>, <<65519, 62589>>, <<34180, 24017>>, <<28584, 32335>>, <<65068, 59104>>, <<41729, 17172>>, <<19976, 4513>>, <<63315, 32386>>, <<48442, 62005>>, <<10967, 53947>>, <<60294, 54161>>>>
MD5S == <<7, 12, 17, 22, 7, 12, 17, 22, 7, 12, 17, 22, 7, 12, 17, 22, 5, 9, 14, 20, 5, 9, 14, 20, 5, 9, 14, 20, 5, 9, 14, 20, 4, 11, 16, 23, 4, 11, 16, 23, 4, 11, 16, 23, 4, 11, 16, 23, 6, 10, 15, 21, 6, 10, 15, 21, 6, 10, 15, 21, 6, 10, 15, 21>>
MD5Start == <<<<26437, 8961>>, <<61389, 43913>>, <<39098, 56574>>, <<4146, 21622>>>>

\* message bytes, 0x80, zeros up to 56 mod 64, bit length as 8 little-endian bytes
Pad(msg) ==
    LET n == Len(msg)
        z == (55 - n) % 64
        bits == 8 * n
    IN msg \o <<128>> \o [i \in 1..z |-> 0]
           \o <<bits % 256, (bits \div 256) % 256, (bits \div 65536) % 256, 0, 0, 0, 0, 0>>

\* the 16 little-endian words of block b (from 0) of the padded message p
BlockWords(p, b) ==
    [j \in 1..16 |->
        LET o == 64 * b + 4 * (j - 1)
        IN <<p[o + 4] * 256 + p[o + 3], p[o + 2] * 256 + p[o + 1]>>]

RoundF(i, B, C, D) ==
    IF i < 16 THEN WOr(WAnd(B, C), WAnd(WNot(B), D))
    ELSE IF i < 32 THEN WOr(WAnd(D, B), WAnd(WNot(D), C))
    ELSE IF i < 48 THEN WXor(WXor(B, C), D)
    ELSE WXor(C, WOr(B, WNot(D)))

RoundG(i) ==
    IF i < 16 THEN i
    ELSE IF i < 32 THEN (5 * i + 1) % 16
    ELSE IF i < 48 THEN (3 * i + 5) % 16
    ELSE (7 * i) % 16

RECURSIVE Rounds(_, _, _, _)
\* operations i .. last - 1 of a block on the four words st = <<A, B, C, D>>
Rounds(i, last, st, M) ==
    IF i = last \/ Len(st) # 4 THEN st
    ELSE LET f == WAdd(WAdd(WAdd(RoundF(i, st[2], st[3], st[4]), st[1]), MD5K[i + 1]), M[RoundG(i) + 1])
         IN Rounds(i + 1, last, <<st[4], WAdd(st[2], WRotl(f, MD5S[i + 1])), st[2], st[3]>>, M)

\* the four rounds of 16 operations
Block(st, M) == Rounds(48, 64, Rounds(32, 48, Rounds(16, 32, Rounds(0, 16, st, M), M), M), M)

RECURSIVE Blocks(_, _, _)
Blocks(p, b, st) ==
    IF 64 * b >= Len(p) THEN st
    ELSE LET r == Block(st, BlockWords(p, b))
         IN Blocks(p, b + 1, <<WAdd(st[1], r[1]), WAdd(st[2], r[2]), WAdd(st[3], r[3]), WAdd(st[4], r[4])>>)

\* the 8 hex digits of a word written little-endian
HexChar(d) == IF d < 10 THEN 48 + d ELSE 87 + d
ByteHex(v) == <<HexChar(v \div 16), HexChar(v % 16)>>
WordHex(a) == ByteHex(a[2] % 256) \o ByteHex(a[2] \div 256) \o ByteHex(a[1] % 256) \o ByteHex(a[1] \div 256)

MD5Hex(msg) ==
    LET st == Blocks(Pad(msg), 0, MD5Start)
    IN WordHex(st[1]) \o WordHex(st[2]) \o WordHex(st[3]) \o WordHex(st[4])

\* key_str.encode() of an ASCII str is its character codes; the key is the
\* digest in hex
get_cache_key(url, options) == MD5Hex(JsonDumps(KeyData(url, options)))

\* -------------------------------------------------------------- key callers
\* urls "a" and "b"; viewport sides
Urls == {<<97>>, <<98>>}
Dims == {1, 11}

\* the option names of capture_screenshot's cache_options
full_page == <<102, 117, 108, 108, 95, 112, 97, 103, 101>>
selector == <<115, 101, 108, 101, 99, 116, 111, 114>>
mobile == <<109, 111, 98, 105, 108, 101>>
device_name == <<100, 101, 118, 105, 99, 101, 95, 110, 97, 109, 101>>
OptionNames == {full_page, selector, mobile, device_name}

\* selector None or "null", device_name None or "a"
Selectors == {None, Str(<<110, 117, 108, 108>>)}
Devices == {None, Str(<<97>>)}

\* cache_options as capture_screenshot builds it
CacheOptions(fp, sel, mob, dev) ==
    Dict(<< <<full_page, Bool(fp)>>, <<selector, sel>>,
            <<mobile, Bool(mob)>>, <<device_name, dev>> >>)

\* the options a caller passes: none, an empty dict, or cache_options
OptionsInputs ==
    {None, Dict(<<>>)} \cup
    {CacheOptions(fp, sel, mob, dev) :
        fp \in BOOLEAN, sel \in Selectors, mob \in BOOLEAN, dev \in Devices}

Names(items) == {items[i][1] : i \in 1..Len(items)}

\* options.get(k), with a mark of its own for a missing key or no dict
Lookup(options, k) ==
    IF options.t = "dict" /\ k \in Names(options.items)
    THEN LET i == CHOOSE j \in 1..Len(options.items) : options.items[j][1] = k
         IN options.items[i][2]
    ELSE [t |-> "absent"]

\* the values an option takes
OptionValues(k) ==
    IF k = selector THEN Selectors
    ELSE IF k = device_name THEN Devices
    ELSE {Bool(TRUE), Bool(FALSE)}

\* d[k] = v: in place for a key d has, at the end for a new one
DictSet(items, k, v) ==
    IF k \in Names(items)
    THEN [i \in 1..Len(items) |-> IF items[i][1] = k THEN <<k, v>> ELSE items[i]]
    ELSE Append(items, <<k, v>>)

\* d[k] = d.pop(k): the same mapping with k inserted last
MoveToEnd(items, k) ==
    SelectSeq(items, LAMBDA it : it[1] # k) \o SelectSeq(items, LAMBDA it : it[1] = k)

\* the first call is for url "a" (ChangeUrl gives the other)
KeyArgs ==
    /\ viewport_width \in Dims
    /\ viewport_height \in Dims
    /\ argUrl = <<97>>
    /\ argOptions \in OptionsInputs
    /\ called = <<>>
    /\ nChanges = 0

KeyInit == PoolAtRest /\ CacheAtRest /\ CaptureAtRest /\ KeyArgs /\ CoreAtRest

\* get_cache_key(argUrl, argOptions); two calls are what a key is compared over
GetCacheKey ==
    /\ Len(called) < 2
    /\ called' = Append(called, [url |-> argUrl, options |-> argOptions,
                                 width |-> viewport_width, height |-> viewport_height,
                                 key |-> get_cache_key(argUrl, argOptions)])
    /\ UNCHANGED <<viewport_width, viewport_height, argUrl, argOptions, nChanges>>
    /\ UNCHANGED <<poolVars, cacheVars, capVars, coreVars>>

\* the caller changes something after its first call (KeyArgs ranges over
\* the options and the viewport of the first)
Change ==
    /\ called # <<>>
    /\ nChanges < MaxChanges
    /\ nChanges' = nChanges + 1
    /\ UNCHANGED <<called, poolVars, cacheVars, capVars, coreVars>>

ChangeUrl(u) ==
    /\ Change
    /\ u # argUrl
    /\ argUrl' = u
    /\ UNCHANGED <<viewport_width, viewport_height, argOptions>>

\* options[k] = v
SetOption(k, v) ==
    /\ Change
    /\ argOptions.t = "dict"
    /\ Lookup(argOptions, k) # v
    /\ argOptions' = Dict(DictSet(argOptions.items, k, v))
    /\ UNCHANGED <<viewport_width, viewport_height, argUrl>>

\* options[k] = options.pop(k): an equal dict in another insertion order
ReinsertOption(k) ==
    /\ Change
    /\ argOptions.t = "dict"
    /\ k \in Names(argOptions.items)
    /\ argOptions.items[Len(argOptions.items)][1] # k
    /\ argOptions' = Dict(MoveToEnd(argOptions.items, k))
    /\ UNCHANGED <<viewport_width, viewport_height, argUrl>>

\* the next call passes no options, or an empty dict
DropOptions(o) ==
    /\ Change
    /\ o # argOptions
    /\ argOptions' = o
    /\ UNCHANGED <<viewport_width, viewport_height, argUrl>>

\* set_config(viewport_width=w, viewport_height=h)
SetViewport(w, h) ==
    /\ Change
    /\ <<w, h>> # <<viewport_width, viewport_height>>
    /\ viewport_width' = w
    /\ viewport_height' = h
    /\ UNCHANGED <<argUrl, argOptions>>

KeyNext ==
    \/ GetCacheKey
    \/ \E u \in Urls : ChangeUrl(u)
    \/ \E k \in OptionNames : \E v \in OptionValues(k) : SetOption(k, v)
    \/ \E o \in {None, Dict(<<>>)} : DropOptions(o)
    \/ \E k \in OptionNames : ReinsertOption(k)
    \/ \E w \in Dims, h \in Dims : SetViewport(w, h)

SpecKey == KeyInit /\ [][KeyNext]_vars

\* ----------------------------------------------------------- key claims
\* two calls were given the same url, the same value (or none) for each of
\* full_page, selector, mobile and device_name, and the same viewport
SameInputs(a, b) ==
    /\ a.url = b.url
    /\ \A k \in OptionNames : Lookup(a.options, k) = Lookup(b.options, k)
    /\ a.width = b.width
    /\ a.height = b.height

\* C9: get_cache_key is a function of (url, options, viewport): two calls
\* with equal inputs return equal keys, and two calls whose inputs differ in
\* url, full_page, selector, mobile, device_name or a viewport side return
\* different keys.
C9_KeyDeterminedByInputs ==
    \A i \in 1..Len(called), j \in 1..Len(called) :
        SameInputs(called[i], called[j]) <=> called[i].key = called[j].key

\* two calls that differ in device_name alone, with different keys
C9_Witness ==
    /\ Len(called) = 2
    /\ called[1].url = called[2].url
    /\ called[1].width = called[2].width
    /\ called[1].height = called[2].height
    /\ \A k \in OptionNames \ {device_name} :
          Lookup(called[1].options, k) = Lookup(called[2].options, k)
    /\ Lookup(called[1].options, device_name) # Lookup(called[2].options, device_name)
    /\ called[1].key # called[2].key

\* -------------------------------------------------------------------- cache
\* the requests made of the cache: url "a" with the options capture_screenshot
\* passes by default, url "b" with no options and with an empty dict
Requests ==
    {[url |-> <<97>>, options |-> CacheOptions(TRUE, None, FALSE, None)],
     [url |-> <<98>>, options |-> None],
     [url |-> <<98>>, options |-> Dict(<<>>)]}

\* what a screenshot file holds: one of two pictures; 0 is a file cut
\* short (and no content where an event has none)
Contents == {1, 2}

\* paths: a file of cache_dir, the caller's screenshot
CachePath(name) == [t |-> "path", dir |-> "cache", name |-> name]
ShotPath == [t |-> "path", dir |-> "out", name |-> <<115, 104, 111, 116, 46, 112, 110, 103>>]

\* f"{cache_key}.png"
FileName(key) == key \o <<46, 112, 110, 103>>

\* the clock counts hours from 2024-01-01T00:00:00 and shows whole hours
Pad2(n) == <<48 + (n \div 10), 48 + (n % 10)>>

\* datetime.isoformat()
IsoFormat(h) == <<50, 48, 50, 52, 45, 48, 49, 45>> \o Pad2(1 + (h \div 24)) \o <<84>> \o Pad2(h % 24) \o <<58, 48, 48, 58, 48, 48>>

Digits2(s, i) == 10 * (s[i] - 48) + (s[i + 1] - 48)

\* the date alone, the time of day dropped
FromIsoDate(s) == 24 * (Digits2(s, 9) - 1)

\* datetime.fromisoformat(), as hours on the clock
FromIso(s) == 24 * (Digits2(s, 9) - 1) + Digits2(s, 12)

\* a mapping with k set to v, and with the keys ks removed
Put(f, k, v) == [x \in DOMAIN f \cup {k} |-> IF x = k THEN v ELSE f[x]]
Remove(f, ks) == [x \in DOMAIN f \ ks |-> f[x]]

\* line 67 with the comparison turned round
OlderThanTtl(cached, ttl) == now - cached > ttl

WithinTtlOrAt(cached, ttl) == now - cached <= ttl     \* the test with <= for <
\* datetime.now() - cached_time < timedelta(hours=cache_ttl_hours)
WithinTtl(cached, ttl) == now - cached < ttl

\* _save_metadata: the index file after open(..., 'w') and json.dump went
\* well ("ok"), after open failed ("unopened"), after the dump broke off
\* ("torn"); anything but "ok" raises CacheError
SaveMetadata(index, w) ==
    IF w = "ok" THEN [ok |-> TRUE, index |-> index]
    ELSE IF w = "unopened" THEN persisted
    ELSE [ok |-> FALSE, index |-> NoItems]

WriteOutcomes == {"ok", "unopened", "torn"}

\* a fresh cache_dir and a screenshot; get_cache_key is evaluated once for
\* each request (the viewport does not change while the cache is used)
CacheFresh ==
    /\ cache_enabled = TRUE
    /\ cache_ttl_hours \in {0, MaxTtl}
    /\ keys = [r \in Requests |-> get_cache_key(r.url, r.options)]
    /\ metadata = NoItems
    /\ persisted = [ok |-> TRUE, index |-> NoItems]
    /\ files = NoItems
    /\ shot = 1
    /\ now = 23
    /\ nOps = 0
    /\ events = <<>>

CacheInit == PoolAtRest /\ KeyAtRest /\ CaptureAtRest /\ CacheFresh /\ CoreAtRest

\* one more call or event, remembered with the one before it; the calls that
\* capture_screenshot makes are counted by its own bound
Log(ev) ==
    /\ nOps < MaxCacheOps \/ nCaptures > 0
    /\ nOps' = nOps + 1
    /\ events' = Append(IF Len(events) = 2 THEN Tail(events) ELSE events, ev)
    /\ UNCHANGED keys

\* a call or event while nobody is in the pool or in capture_screenshot
Record(ev) == Log(ev) /\ UNCHANGED <<poolVars, keyVars, capVars, coreVars>>

\* an event: what was called, for which request, what the caller's screenshot
\* held, what came back, what was raised, and how the copy and the index
\* write went
Event(name) ==
    [op |-> name, req |-> None, src |-> 0, ret |-> None, raised |-> "none",
     io |-> <<"ok", "ok">>]

\* what save_to_cache returns with the copy and the index write both done
SaveResultCopied(copied, w, name) == IF copied THEN CachePath(name) ELSE ShotPath

\* what save_to_cache returns: cache_path from the try block, screenshot_path
\* from the except block (and when the cache is off)
SaveResult(copied, w, name) ==
    IF copied /\ w = "ok" THEN CachePath(name) ELSE ShotPath

\* max_age of cleanup_old_cache, taken as if force were always set
MaxAgeForced(force) == cache_ttl_hours

\* max_age of cleanup_old_cache, taken as no time at all
MaxAgeZero(force) == 0

\* max_age of cleanup_old_cache, in hours
MaxAge(force) == cache_ttl_hours * (IF force THEN 1 ELSE 2)

\* save_to_cache(r.url, ShotPath, r.options); shutil.copy2 works ("ok"),
\* fails before writing ("error") or part way ("partial").  In every method
\* the outcome of a file operation the call does not reach is left at "ok".
save_to_cache(r, c, w) ==
    LET key == keys[r]
        name == FileName(key)
        reads == cache_enabled /\ c # "error"
        copied == reads /\ c = "ok"
        entry == [url |-> r.url, filename |-> name, timestamp |-> IsoFormat(now),
                  options |-> OrEmpty(r.options)]
        index == Put(metadata, key, entry)
    IN /\ cache_enabled \/ c = "ok"
       /\ copied \/ w = "ok"
       /\ files' = IF copied THEN Put(files, name, shot)
                   ELSE IF reads THEN Put(files, name, 0)
                   ELSE files
       /\ metadata' = IF copied THEN index ELSE metadata
       /\ persisted' = IF copied THEN SaveMetadata(index, w) ELSE persisted
       /\ Log([op |-> "save_to_cache", req |-> r, src |-> shot,
               ret |-> SaveResult(copied, w, name),
               raised |-> "none", io |-> <<c, w>>])
       /\ UNCHANGED <<cache_enabled, cache_ttl_hours, shot, now>>

\* a caller of the cache stores its screenshot
SaveToCache(r, c, w) ==
    save_to_cache(r, c, w) /\ UNCHANGED <<poolVars, keyVars, capVars, coreVars>>

\* an entry is dropped whenever its file is missing
OrphanedAtAnyAge(fresh, exists) == ~exists

\* lines 67-75: the else branch of `if cache_path.exists()` inside the
\* validity test
Orphaned(fresh, exists) == fresh /\ ~exists

\* get_cached_path(r.url, r.options)
get_cached_path(r, w) ==
    LET key == keys[r]
        known == cache_enabled /\ key \in DOMAIN metadata
        entry == metadata[key]
        fresh == known /\ WithinTtl(FromIso(entry.timestamp), cache_ttl_hours)
        exists == known /\ entry.filename \in DOMAIN files
        hit == fresh /\ exists
        orphan == known /\ Orphaned(fresh, exists)
        index == Remove(metadata, {key})
    IN /\ orphan \/ w = "ok"
       /\ metadata' = IF orphan THEN index ELSE metadata
       /\ persisted' = IF orphan THEN SaveMetadata(index, w) ELSE persisted
       /\ Log([op |-> "get_cached_path", req |-> r, src |-> 0,
               ret |-> IF hit THEN CachePath(entry.filename) ELSE None,
               raised |-> IF orphan /\ w # "ok" THEN "CacheError" ELSE "none",
               io |-> <<"ok", w>>])
       /\ UNCHANGED <<cache_enabled, cache_ttl_hours, files, shot, now>>

\* a caller of the cache looks a request up
GetCachedPath(r, w) ==
    get_cached_path(r, w) /\ UNCHANGED <<poolVars, keyVars, capVars, coreVars>>

\* cleanup_old_cache(force); unlink fails for the files in kept
CleanupOldCache(force, kept_, w) ==
    LET max_age == MaxAge(force)
        expired_keys == {k \in DOMAIN metadata :
                            now - FromIso(metadata[k].timestamp) > max_age}
        names == {metadata[k].filename : k \in expired_keys} \cap DOMAIN files
        index == Remove(metadata, expired_keys)
    IN /\ kept_ \subseteq names
       /\ expired_keys # {} \/ w = "ok"
       /\ files' = Remove(files, names \ kept_)
       /\ metadata' = index
       /\ persisted' = IF expired_keys # {} THEN SaveMetadata(index, w) ELSE persisted
       /\ Record([op |-> IF force THEN "cleanup_old_cache(force)" ELSE "cleanup_old_cache",
                  req |-> None, src |-> 0, ret |-> None,
                  raised |-> IF expired_keys # {} /\ w # "ok" THEN "CacheError" ELSE "none",
                  io |-> <<"ok", w>>])
       /\ UNCHANGED <<cache_enabled, cache_ttl_hours, shot, now>>

\* clear_cache(); unlink fails for the files in kept
ClearCache(kept_, w) ==
    /\ kept_ \subseteq DOMAIN files
    /\ files' = Remove(files, DOMAIN files \ kept_)
    /\ metadata' = NoItems
    /\ persisted' = SaveMetadata(NoItems, w)
    /\ Record([op |-> "clear_cache", req |-> None, src |-> 0, ret |-> None,
               raised |-> IF w # "ok" THEN "CacheError" ELSE "none",
               io |-> <<"ok", w>>])
    /\ UNCHANGED <<cache_enabled, cache_ttl_hours, shot, now>>

\* d hours pass
Tick(d) ==
    /\ now' = now + d
    /\ Record(Event("tick"))
    /\ UNCHANGED <<cache_enabled, cache_ttl_hours, metadata, persisted, files, shot>>

\* someone else deletes a file of cache_dir
DeleteFile(name) ==
    /\ name \in DOMAIN files
    /\ files' = Remove(files, {name})
    /\ Record(Event("delete"))
    /\ UNCHANGED <<cache_enabled, cache_ttl_hours, metadata, persisted, shot, now>>

\* page.screenshot(path=output_path) writes the caller's file
Capture(c) ==
    /\ c # shot
    /\ shot' = c
    /\ Record(Event("capture"))
    /\ UNCHANGED <<cache_enabled, cache_ttl_hours, metadata, persisted, files, now>>

\* set_config(cache_enabled=b)
SetCacheEnabled(b) ==
    /\ b # cache_enabled
    /\ cache_enabled' = b
    /\ Record(Event("set_config"))
    /\ UNCHANGED <<cache_ttl_hours, metadata, persisted, files, shot, now>>

CacheNext ==
    \/ \E r \in Requests, c \in {"ok", "error", "partial"}, w \in WriteOutcomes :
          SaveToCache(r, c, w)
    \/ \E r \in Requests, w \in WriteOutcomes : GetCachedPath(r, w)
    \/ \E force \in BOOLEAN, kept_ \in SUBSET DOMAIN files, w \in WriteOutcomes :
          CleanupOldCache(force, kept_, w)
    \/ \E kept_ \in SUBSET DOMAIN files, w \in WriteOutcomes : ClearCache(kept_, w)
    \/ \E d \in 1..MaxAdvance : Tick(d)
    \/ \E name \in DOMAIN files : DeleteFile(name)
    \/ \E c \in Contents : Capture(c)
    \/ \E b \in BOOLEAN : SetCacheEnabled(b)

SpecCache == CacheInit /\ [][CacheNext]_vars

\* ------------------------------------------------------------- cache claims
\* the last two things that happened are save_to_cache and get_cached_path
\* for the same url and options
StoreThenLookup ==
    /\ Len(events) = 2
    /\ events[1].op = "save_to_cache"
    /\ events[2].op = "get_cached_path"
    /\ events[2].req = events[1].req

\* the lookup returned a path to a file that exists and holds what the
\* caller's screenshot held when it was stored
LookupGaveStored ==
    /\ events[2].ret.t = "path"
    /\ events[2].ret.dir = "cache"
    /\ events[2].ret.name \in DOMAIN files
    /\ files[events[2].ret.name] = events[1].src

\* C10 as stated: save_to_cache(url, path, opts) followed immediately by
\* get_cached_path(url, opts) returns a path to an existing artifact whose
\* content equals the stored artifact.
C10_RoundTripAlways == StoreThenLookup => LookupGaveStored

\* C10: when caching is enabled, the time to live is positive and
\* save_to_cache(url, path, opts) returned the cache path (the copy and the
\* index save went through), get_cached_path(url, opts) called immediately
\* afterwards returns a path to an existing artifact whose content equals
\* the stored artifact.
C10_RoundTrip ==
    (/\ StoreThenLookup
     /\ cache_enabled
     /\ cache_ttl_hours > 0
     /\ events[1].ret.dir = "cache")
    => LookupGaveStored

\* a store that went through and the lookup after it, with its hit
C10_Witness ==
    /\ StoreThenLookup
    /\ cache_enabled
    /\ cache_ttl_hours > 0
    /\ events[1].ret.dir = "cache"
    /\ LookupGaveStored

\* the last call or event
LastEvent == events[Len(events)]

\* this step is a call of the method `name`
CallOf(name) == nOps' = nOps + 1 /\ events'[Len(events')].op = name

\* the hours since the entry for key k was stored
Age(k) == now - FromIso(metadata[k].timestamp)

\* C11: get_cached_path returns a path only when, at the time of the call,
\* the index has an entry for the computed key, the entry's age is strictly
\* less than the TTL and the file the entry names exists (and the path is
\* that file's); an entry as old as the TTL or older is never returned.
C11_HitOnlyWhenValid ==
    [][(CallOf("get_cached_path") /\ events'[Len(events')].ret.t = "path")
        => LET k == keys[events'[Len(events')].req]
           IN /\ k \in DOMAIN metadata
              /\ Age(k) < cache_ttl_hours
              /\ metadata[k].filename \in DOMAIN files
              /\ events'[Len(events')].ret = CachePath(metadata[k].filename)]_vars

\* a lookup that returned the file of an entry stored an hour or more ago
C11_Witness ==
    /\ events # <<>>
    /\ LastEvent.op = "get_cached_path"
    /\ LastEvent.ret.t = "path"
    /\ Age(keys[LastEvent.req]) >= 1

\* C12: when the index has an entry whose file is gone, get_cached_path for
\* that key removes the entry from the index, persists the index and returns
\* no entry without raising.
C12_OrphanPruned ==
    [][(/\ CallOf("get_cached_path")
        /\ keys[events'[Len(events')].req] \in DOMAIN metadata
        /\ metadata[keys[events'[Len(events')].req]].filename \notin DOMAIN files)
        => /\ keys[events'[Len(events')].req] \notin DOMAIN metadata'
           /\ persisted' = [ok |-> TRUE, index |-> metadata']
           /\ events'[Len(events')].ret = None
           /\ events'[Len(events')].raised = "none"]_vars

\* C13: cleanup_old_cache(force=True) removes from the index every entry
\* older than the TTL and deletes its file: afterwards none of those
\* entries and none of their files remain.
C13_ForcedCleanupRemoves ==
    [][CallOf("cleanup_old_cache(force)")
        => \A k \in DOMAIN metadata :
              Age(k) > cache_ttl_hours
              => /\ k \notin DOMAIN metadata'
                 /\ metadata[k].filename \notin DOMAIN files']_vars

\* C14: cleanup_old_cache(force=False) removes exactly the entries older
\* than twice the TTL; an entry aged at most twice the TTL stays in the
\* index as it was, and its file, if it had one, stays as it was.
C14_LenientCleanupKeeps ==
    [][CallOf("cleanup_old_cache")
        => /\ DOMAIN metadata' = {k \in DOMAIN metadata : Age(k) <= 2 * cache_ttl_hours}
           /\ \A k \in DOMAIN metadata' :
                 /\ metadata'[k] = metadata[k]
                 /\ metadata[k].filename \in DOMAIN files
                    => /\ metadata[k].filename \in DOMAIN files'
                       /\ files'[metadata[k].filename] = files[metadata[k].filename]]_vars

\* a lenient cleanup has just left in place, with its file, an entry older
\* than the TTL
C14_Witness ==
    /\ events # <<>>
    /\ LastEvent.op = "cleanup_old_cache"
    /\ \E k \in DOMAIN metadata :
          /\ Age(k) > cache_ttl_hours
          /\ cache_ttl_hours > 0
          /\ metadata[k].filename \in DOMAIN files

\* C15: save_to_cache never raises, and when the copy or the index write
\* failed it returns the caller's own path.
C15_SaveSwallowsFailure ==
    \A i \in 1..Len(events) :
        events[i].op = "save_to_cache"
        => /\ events[i].raised = "none"
           /\ events[i].io # <<"ok", "ok">> => events[i].ret = ShotPath

\* a store whose copy went through and whose index write failed returned
\* the caller's path
C15_Witness ==
    /\ events # <<>>
    /\ LastEvent.op = "save_to_cache"
    /\ LastEvent.io[1] = "ok"
    /\ LastEvent.io[2] # "ok"
    /\ LastEvent.ret = ShotPath

\* ------------------------------------------------------- capture_screenshot
\* the thread that calls capture_screenshot
Caller == 1

\* the requests made of capture_screenshot: url "a" with the default options,
\* and with a selector (mobile and device_name stay at their defaults); a
\* caller that waits passes both wait_for and extra_wait
CaptureRequests ==
    {[url |-> <<97>>, options |-> CacheOptions(TRUE, None, FALSE, None)],
     [url |-> <<97>>, options |-> CacheOptions(TRUE, Str(<<110, 117, 108, 108>>), FALSE, None)]}

\* the classes of exceptions.py
BrowserErrors ==
    {"BrowserError", "TimeoutError", "NavigationError", "ElementNotFoundError",
     "ScreenshotError", "CacheError"}

\* the four errors capture_screenshot raises itself
CaptureErrors ==
    {"NavigationError", "TimeoutError", "ElementNotFoundError", "ScreenshotError"}

\* `if cached:` taken as if the lookup never hit
AfterLookupMiss(cached) == "c85"

\* `if cached:` with what get_cached_path returned
AfterLookup(cached) == IF cached # None THEN "c78" ELSE "c85"

\* the handlers, with every exception re-raised
HandlerRaiseAll(e) == "raise"

\* the handlers, with every exception retried
HandlerRetryAll(e) == "retry"

\* `except BrowserError: raise`, `except Exception:` log and go on
Handler(e) == IF e \in BrowserErrors THEN "raise" ELSE "retry"

\* `attempt == browser_config.max_retries - 1`, attempts counted from 1
LastAttempt(a) == a = max_retries

\* `return output_path` replaced by the path save_to_cache gave
ReturnedSaved(saved) == saved

\* `return output_path`
Returned(saved) == ShotPath

\* one call of an attempt: what was called, on which selector of wait_for
\* (0: none), and whether it returned
Did(step, n, ok) == [step |-> step, n |-> n, ok |-> ok]

\* the try block of the attempt raised e: the handler chosen, then finally
Failed(c, e) ==
    LET seen == [c EXCEPT !.pc = "c180",
                            !.soft = IF e \in BrowserErrors THEN @ ELSE @ + 1,
                            !.hard = IF e \in CaptureErrors /\ @.kind = "none"
                                     THEN [kind |-> e, attempt |-> c.attempt,
                                           navs |-> c.navs]
                                     ELSE @]
    IN IF Handler(e) = "raise"
       THEN [seen EXCEPT !.pending = "raise", !.raised = e]
       ELSE IF LastAttempt(c.attempt)
       THEN [seen EXCEPT !.pending = "return", !.ret = None]
       ELSE [seen EXCEPT !.pending = "retry"]

\* every pool variable but the page counts
poolButPages ==
    <<max_contexts, serial, mgrVars, nCreated, closedCtx, ctxBrowser, engVars,
      nCalls, op, pc, locVars, pre, clean, resetFresh, since>>

\* a configured cache and retry count, an empty cache_dir, no output file
CaptureFresh ==
    /\ cache_enabled \in BOOLEAN
    /\ cache_ttl_hours \in IF cache_enabled THEN {0, MaxTtl} ELSE {MaxTtl}
    /\ keys = [r \in CaptureRequests |-> get_cache_key(r.url, r.options)]
    /\ metadata = NoItems
    /\ persisted = [ok |-> TRUE, index |-> NoItems]
    /\ files = NoItems
    /\ shot = 0
    /\ now = 23
    /\ nOps = 0
    /\ events = <<>>
    /\ max_retries \in 0..MaxRetries
    /\ cap = NoCapture
    /\ prev = NoCall
    /\ nCaptures = 0

CaptureInit == PoolAtRest /\ KeyAtRest /\ CaptureFresh /\ CoreAtRest

\* the caller's frame is the one running (no BrowserManager call is open)
Resumed == pc[Caller] = "idle"

\* the call returns or raises: its locals are gone
Finish(c) ==
    [c EXCEPT !.pc = "done", !.ctx = 0, !.page = 0, !.open = FALSE,
              !.cached = None, !.pending = "none", !.tried = FALSE]

\* what the next call finds of this one
Summary(c) ==
    [req |-> c.req, use_cache |-> c.use_cache, ret |-> c.ret, raised |-> c.raised,
     art |-> c.art, gets |-> nCalls - c.calls0, hit |-> c.hit,
     stored |-> c.stored]

\* capture_screenshot(r.url, output_path, selector=..., wait_for=...,
\* use_cache=uc, extra_wait=...): lines 67-74.  Two calls are followed: a
\* call and the one after it, which repeats the first's waits, for the same
\* request or the other one, and repeats its use_cache or, once the first has
\* stored its screenshot, passes use_cache=False.  Whether output_path was given is
\* read once, at line 78, and is drawn there.
CaptureCall(r, uc, wf, ew) ==
    /\ cap.pc \in {"idle", "done"}
    /\ Resumed
    /\ nCaptures < 2
    /\ nCaptures = 1 => <<wf, ew>> = <<cap.wait_for, cap.extra_wait>>
    /\ nCaptures = 1 => uc = cap.use_cache \/ (cap.stored /\ ~uc)
    /\ nCaptures' = nCaptures + 1
    /\ prev' = Summary(cap)
    /\ cap' = [NoCapture EXCEPT !.pc = IF uc THEN "c75" ELSE "c85",
                                !.req = r, !.use_cache = uc,
                                !.wait_for = wf, !.extra_wait = ew,
                                !.calls0 = nCalls]
    /\ UNCHANGED <<poolVars, keyVars, cacheVars, max_retries, coreVars>>

\* lines 75-76: the lookup; a CacheError of get_cached_path is not caught
CaptureLookup(w) ==
    /\ cap.pc = "c75"
    /\ Resumed
    /\ get_cached_path(cap.req, w)
    /\ LET ev == events'[Len(events')]
       IN cap' = IF ev.raised # "none"
                 THEN Finish([cap EXCEPT !.raised = ev.raised])
                 ELSE [cap EXCEPT !.pc = AfterLookup(ev.ret), !.cached = ev.ret,
                                  !.hit = ev.ret # None]
    /\ UNCHANGED <<poolVars, keyVars, max_retries, prev, nCaptures, coreVars>>

\* lines 77-82: the hit; shutil.copy2(cached, output_path) when output_path
\* was given (g), with its three outcomes (an OSError is not caught)
CaptureUseCached(g, c) ==
    /\ cap.pc = "c78"
    /\ Resumed
    /\ g \/ c = "ok"
    /\ shot' = IF ~g \/ c = "error" THEN shot
               ELSE IF c = "ok" THEN files[cap.cached.name]
               ELSE 0
    /\ cap' = IF ~g
              THEN Finish([cap EXCEPT !.ret = cap.cached,
                                      !.art = files[cap.cached.name]])
              ELSE IF c = "ok"
              THEN Finish([cap EXCEPT !.given = TRUE, !.ret = ShotPath,
                                      !.art = files[cap.cached.name]])
              ELSE Finish([cap EXCEPT !.given = TRUE, !.raised = "OSError"])
    /\ UNCHANGED <<cache_enabled, cache_ttl_hours, keys, metadata, persisted, files,
                   now, nOps, events>>
    /\ UNCHANGED <<poolVars, keyVars, max_retries, prev, nCaptures, coreVars>>

\* lines 85-94: the output path and its directory (mkdir may fail, uncaught)
CaptureOutputPath(m) ==
    /\ cap.pc = "c85"
    /\ Resumed
    /\ cap' = IF m = "ok"
              THEN [cap EXCEPT !.pc = "c95", !.looped = TRUE]
              ELSE Finish([cap EXCEPT !.raised = "OSError"])
    /\ UNCHANGED <<poolVars, keyVars, cacheVars, max_retries, prev, nCaptures, coreVars>>

\* line 95: the next attempt, or the end of the function
CaptureLoop ==
    /\ cap.pc = "c95"
    /\ Resumed
    /\ cap' = IF cap.attempt < max_retries
              THEN [cap EXCEPT !.pc = "c98", !.attempt = @ + 1, !.rendered = FALSE,
                               !.waited = 0, !.log = <<>>]
              ELSE Finish([cap EXCEPT !.ret = None])
    /\ UNCHANGED <<poolVars, keyVars, cacheVars, max_retries, prev, nCaptures, coreVars>>

\* line 98: browser_manager.get_context() is called
CaptureGetContext ==
    /\ cap.pc = "c98"
    /\ CallGetContext(Caller)

\* line 98: get_context has returned a context or raised
CaptureGotContext ==
    /\ cap.pc = "c98"
    /\ pc[Caller] = "done"
    /\ cap' = IF exc[Caller] = "none"
              THEN [cap EXCEPT !.pc = "c114", !.ctx = ret[Caller],
                               !.log = Append(@, Did("context", 0, TRUE))]
              ELSE Failed([cap EXCEPT !.log = Append(@, Did("context", 0, FALSE))], exc[Caller])
    /\ UNCHANGED <<poolVars, keyVars, cacheVars, max_retries, prev, nCaptures, coreVars>>

\* the frame of get_context is left
CaptureResume ==
    /\ cap.pc # "c98"
    /\ Return(Caller)

\* lines 101-121: context.new_page(...)
CaptureNewPage(o) ==
    /\ cap.pc = "c114"
    /\ Resumed
    /\ IF o = "ok"
       THEN /\ pages' = [pages EXCEPT ![cap.ctx] = @ + 1]
            /\ cap' = [cap EXCEPT !.pc = "c126", !.page = cap.ctx, !.open = TRUE,
                                  !.opened = @ + 1, !.tried = FALSE,
                                  !.left = @ + 1, !.log = Append(@, Did("page", 0, TRUE))]
       ELSE /\ pages' = pages
            /\ cap' = Failed([cap EXCEPT !.log = Append(@, Did("page", 0, FALSE))], "Error")
    /\ UNCHANGED <<poolButPages, keyVars, cacheVars, max_retries, prev, nCaptures, coreVars>>

\* lines 125-128: page.goto; a playwright Error becomes NavigationError
CaptureGoto(o) ==
    /\ cap.pc = "c126"
    /\ Resumed
    /\ cap' = IF o = "ok"
              THEN [cap EXCEPT !.pc = "c131", !.navs = @ + 1,
                               !.log = Append(@, Did("goto", 0, TRUE))]
              ELSE Failed([cap EXCEPT !.navs = @ + 1, !.log = Append(@, Did("goto", 0, FALSE))],
                          "NavigationError")
    /\ UNCHANGED <<poolVars, keyVars, cacheVars, max_retries, prev, nCaptures, coreVars>>

\* the loop of wait_for stops at the first selector
WaitsLeftOne(wf, waited) == wf /\ waited < 1

\* lines 131-133: wait_for given, and a selector of it not yet waited for
WaitsLeft(wf, waited) == wf /\ waited < MaxWaits

\* lines 131-138: page.wait_for_selector for the next selector of wait_for;
\* a playwright Error becomes TimeoutError
CaptureWaitFor(o) ==
    /\ cap.pc = "c131"
    /\ Resumed
    /\ WaitsLeft(cap.wait_for, cap.waited) \/ o = "ok"
    /\ cap' = IF ~WaitsLeft(cap.wait_for, cap.waited)
              THEN [cap EXCEPT !.pc = "c141"]
              ELSE IF o = "ok"
              THEN [cap EXCEPT !.waited = @ + 1, !.log = Append(@, Did("wait", cap.waited + 1, TRUE))]
              ELSE Failed([cap EXCEPT !.waited = @ + 1, !.log = Append(@, Did("wait", cap.waited + 1, FALSE))],
                          "TimeoutError")
    /\ UNCHANGED <<poolVars, keyVars, cacheVars, max_retries, prev, nCaptures, coreVars>>

\* lines 141-142: page.wait_for_timeout; its playwright Error stays as it is
CaptureExtraWait(o) ==
    /\ cap.pc = "c141"
    /\ Resumed
    /\ cap.extra_wait \/ o = "ok"
    /\ cap' = IF o = "ok"
              THEN [cap EXCEPT !.pc = "c145",
                               !.log = IF cap.extra_wait THEN Append(@, Did("extra", 0, TRUE)) ELSE @]
              ELSE Failed([cap EXCEPT !.log = Append(@, Did("extra", 0, FALSE))], "Error")
    /\ UNCHANGED <<poolVars, keyVars, cacheVars, max_retries, prev, nCaptures, coreVars>>

\* lines 145-162: the screenshot of the element or of the page; the selector
\* may match nothing ("missing"), the renderer may fail ("Error").  The page
\* differs from call to call: the n-th call's screenshot holds n.
CaptureScreenshot(o) ==
    /\ cap.pc = "c145"
    /\ Resumed
    /\ o = "missing" => Lookup(cap.req.options, selector) # None
    /\ shot' = IF o = "ok" THEN nCaptures ELSE shot
    /\ cap' = IF o = "ok"
              THEN [cap EXCEPT !.pc = "c165", !.rendered = TRUE,
                               !.log = Append(@, Did("shot", 0, TRUE))]
              ELSE IF o = "missing"
              THEN Failed([cap EXCEPT !.log = Append(@, Did("shot", 0, FALSE))],
                          "ElementNotFoundError")
              ELSE Failed([cap EXCEPT !.log = Append(@, Did("shot", 0, FALSE))], "ScreenshotError")
    /\ UNCHANGED <<cache_enabled, cache_ttl_hours, keys, metadata, persisted, files,
                   now, nOps, events>>
    /\ UNCHANGED <<poolVars, keyVars, max_retries, prev, nCaptures, coreVars>>

\* `if use_cache:` taken as if the store were unconditional
StoresAlways(uc) == TRUE

\* line 165: `if use_cache:`
Stores(uc) == uc

\* lines 165-168: save_to_cache when use_cache, then return output_path
CaptureSave(c, w) ==
    /\ cap.pc = "c165"
    /\ Resumed
    /\ IF Stores(cap.use_cache)
       THEN /\ save_to_cache(cap.req, c, w)
            /\ cap' = [cap EXCEPT !.pc = "c180", !.pending = "return",
                                  !.ret = Returned(events'[Len(events')].ret),
                                  !.stored = cache_enabled /\ c = "ok",
                                  !.art = shot, !.log = Append(@, Did("store", 0, TRUE))]
       ELSE /\ c = "ok"
            /\ w = "ok"
            /\ cap' = [cap EXCEPT !.pc = "c180", !.pending = "return",
                                  !.ret = Returned(ShotPath), !.art = shot]
            /\ UNCHANGED cacheVars
    /\ UNCHANGED <<poolVars, keyVars, max_retries, prev, nCaptures, coreVars>>

\* `if page:` taken as if no page were ever held
ClosesNever(page) == FALSE

\* `if page:` in the finally blocks
Closes(page) == page # 0

\* someone else deletes a file of cache_dir between the two calls
CaptureFileLost(name) ==
    /\ cap.pc = "done"
    /\ Resumed
    /\ nCaptures = 1
    /\ name \in DOMAIN files
    /\ files' = Remove(files, {name})
    /\ cap' = [cap EXCEPT !.stored = FALSE]
    /\ UNCHANGED <<cache_enabled, cache_ttl_hours, keys, metadata, persisted, shot,
                   now, nOps, events>>
    /\ UNCHANGED <<poolVars, keyVars, max_retries, prev, nCaptures, coreVars>>

\* lines 179-184: page.close() if a page was ever opened (the variable keeps
\* the page of an earlier attempt), its failure swallowed; then what the try
\* block ended with: the return, the raise, or the next attempt
CaptureFinally(cl) ==
    LET closing == Closes(cap.page) /\ cap.open
        shut == closing /\ cl = "ok"
        after == [cap EXCEPT !.pending = "none",
                             !.log = IF Closes(cap.page) THEN Append(@, Did("close", 0, TRUE))
                                     ELSE @,
                             !.open = IF shut THEN FALSE ELSE @,
                             !.tried = IF closing THEN TRUE ELSE @,
                             !.left = IF shut THEN @ - 1 ELSE @,
                             !.lost = IF shut /\ cap.tried THEN @ - 1
                                      ELSE IF closing /\ ~shut /\ ~cap.tried THEN @ + 1
                                      ELSE @]
    IN /\ cap.pc = "c180"
       /\ Resumed
       /\ closing \/ cl = "ok"
       /\ pages' = IF shut THEN [pages EXCEPT ![cap.page] = @ - 1] ELSE pages
       /\ cap' = IF cap.pending = "retry"
                 THEN [after EXCEPT !.pc = "c95"]
                 ELSE Finish(after)
       /\ UNCHANGED <<poolButPages, keyVars, cacheVars, max_retries, prev, nCaptures, coreVars>>

\* set_config(cache_enabled=False) between the two calls, once the first has
\* stored its screenshot
CaptureSetConfig ==
    /\ cap.pc = "done"
    /\ Resumed
    /\ nCaptures = 1
    /\ cap.stored
    /\ cache_enabled' = FALSE
    /\ cap' = [cap EXCEPT !.stored = FALSE]
    /\ UNCHANGED <<cache_ttl_hours, keys, metadata, persisted, files, shot,
                   now, nOps, events>>
    /\ UNCHANGED <<poolVars, keyVars, max_retries, prev, nCaptures, coreVars>>

CaptureNext ==
    \/ \E r \in CaptureRequests, uc \in BOOLEAN, wt \in BOOLEAN :
          CaptureCall(r, uc, wt, wt)
    \/ \E w \in {"ok", "torn"} : CaptureLookup(w)
    \/ \E g \in BOOLEAN, c \in {"ok", "error", "partial"} : CaptureUseCached(g, c)
    \/ \E m \in {"ok", "error"} : CaptureOutputPath(m)
    \/ CaptureLoop
    \/ CaptureGetContext
    \/ GetContextPrune(Caller)
    \/ GetContextStore(Caller)
    \/ GetContextReuse(Caller)
    \/ GetContextLimit(Caller)
    \/ GetBrowserCheck(Caller)
    \/ GetBrowserStart(Caller)
    \/ GetBrowserLaunch(Caller)
    \/ GetBrowserReturn(Caller)
    \/ GetContextCreate(Caller)
    \/ GetContextLeastBusy(Caller)
    \/ CaptureGotContext
    \/ CaptureResume
    \/ \E o \in {"ok", "Error"} : CaptureNewPage(o)
    \/ \E o \in {"ok", "Error"} : CaptureGoto(o)
    \/ \E o \in {"ok", "Error"} : CaptureWaitFor(o)
    \/ \E o \in {"ok", "Error"} : CaptureExtraWait(o)
    \/ \E o \in {"ok", "missing", "Error"} : CaptureScreenshot(o)
    \/ \E c \in {"ok", "error", "partial"}, w \in {"ok", "torn"} : CaptureSave(c, w)
    \/ \E cl \in {"ok", "error"} : CaptureFinally(cl)
    \/ \E name \in DOMAIN files : CaptureFileLost(name)
    \/ CaptureSetConfig

SpecCapture == CaptureInit /\ [][CaptureNext]_vars

\* ----------------------------------------------------------- capture claims
\* the get_context calls the call in progress has made
Gets == nCalls - cap.calls0

\* C16: a capture_screenshot call with use_cache=True whose lookup hit ends
\* without a get_context call, without opening a page and without
\* navigating; what it returns is a path.
C16_HitTouchesNoBrowser ==
    cap.hit
    => /\ cap.use_cache
       /\ Gets = 0
       /\ pc[Caller] = "idle"
       /\ cap.opened = 0
       /\ cap.navs = 0
       /\ cap.pc \in {"c78", "done"}
       /\ (cap.pc = "done" /\ cap.raised = "none") => cap.ret.t = "path"

\* a call that hit, after a call that went to the renderer, has returned
C16_Witness ==
    /\ cap.hit
    /\ cap.pc = "done"
    /\ cap.ret.t = "path"
    /\ prev.gets > 0

\* two calls have been made, one after the other, for the same url and
\* options, both with use_cache=True, and both are over
TwoCalls ==
    /\ nCaptures = 2
    /\ cap.pc = "done"
    /\ Resumed
    /\ cap.req = prev.req
    /\ cap.use_cache
    /\ prev.use_cache

\* what the file at a path holds (0 also when there is no such file)
Holds(path) ==
    IF path.dir = "out" THEN shot
    ELSE IF path.name \in DOMAIN files THEN files[path.name]
    ELSE 0

\* the first call went to the renderer
FirstRendered == prev.gets > 0 /\ ~prev.hit

\* the second call made no get_context call, opened no page, navigated
\* nowhere
SecondOffRenderer == Gets = 0 /\ cap.opened = 0 /\ cap.navs = 0

\* the second call returned a path to what the first call's file held
SecondGaveFirst ==
    /\ cap.raised = "none"
    /\ cap.ret.t = "path"
    /\ prev.ret.t = "path"
    /\ Holds(cap.ret) = prev.art

\* the first call returned a path
FirstReturned == prev.raised = "none" /\ prev.ret.t = "path"

FirstStored ==
    /\ cache_enabled
    /\ cache_ttl_hours > 0
    /\ FirstReturned
    /\ prev.stored

C18_BoundedSoftFailure ==
    /\ cap.attempt <= max_retries
    /\ Gets <= max_retries
    /\ (cap.pc = "done" /\ cap.looped /\ cap.soft = cap.attempt)
       => (cap.ret = None /\ cap.raised = "none" /\ cap.attempt = max_retries)

\* two attempts were allowed, both failed outside BrowserError, the call
\* returned None
C18_Witness ==
    /\ cap.pc = "done"
    /\ max_retries = MaxRetries
    /\ cap.soft = MaxRetries
    /\ cap.ret = None
    /\ cap.raised = "none"

\* C19: when the first max_retries - 1 attempts failed with exceptions
\* outside BrowserError and the last attempt took its screenshot, the call
\* returns the output path, having made exactly max_retries attempts.
C19_LastAttemptSucceeds ==
    (/\ cap.pc = "done"
     /\ max_retries >= 1
     /\ cap.soft = max_retries - 1
     /\ cap.rendered)
    => /\ cap.ret = ShotPath
       /\ cap.raised = "none"
       /\ cap.attempt = max_retries
       /\ Gets = max_retries

\* the first of two attempts failed, the second succeeded
C19_Witness ==
    /\ cap.pc = "done"
    /\ max_retries = MaxRetries
    /\ cap.soft = MaxRetries - 1
    /\ cap.rendered
    /\ cap.ret = ShotPath

\* C20: once an attempt has raised NavigationError, TimeoutError,
\* ElementNotFoundError or ScreenshotError, no further attempt is started and
\* no further navigation is made, and the call ends raising that error.
C20_ClassifiedPropagates ==
    cap.hard.kind # "none"
    => /\ cap.attempt = cap.hard.attempt
       /\ Gets = cap.hard.attempt
       /\ cap.navs = cap.hard.navs
       /\ cap.pc \in {"c180", "done"}
       /\ cap.pc = "done" => (cap.raised = cap.hard.kind /\ cap.ret = None)

\* the first attempt raised TimeoutError with another attempt allowed, and
\* the call has raised it
C20_Witness ==
    /\ cap.pc = "done"
    /\ cap.raised = "TimeoutError"
    /\ cap.attempt = 1
    /\ max_retries = MaxRetries

\* ------------------------------------------------------ cache claims, more
\* the methods that write the index
IndexWriters ==
    {"save_to_cache", "get_cached_path", "cleanup_old_cache",
     "cleanup_old_cache(force)", "clear_cache"}

\* C29: after every cache operation that changed the index and returned,
\* the index file holds exactly the index in memory.
C29_IndexFileFollows ==
    [][(/\ nOps' = nOps + 1
        /\ events'[Len(events')].op \in IndexWriters
        /\ events'[Len(events')].raised = "none"
        /\ metadata' # metadata)
        => persisted' = [ok |-> TRUE, index |-> metadata']]_vars

\* C30: after clear_cache() the index is empty and no file is left in the
\* cache directory.
C30_ClearLeavesNothing ==
    [][CallOf("clear_cache")
        => (DOMAIN metadata' = {} /\ DOMAIN files' = {})]_vars

\* C36: when save_to_cache returns the caller's own path, the index in
\* memory is as it was before the call.
C36_FailedStoreLeavesIndex ==
    [][(CallOf("save_to_cache") /\ events'[Len(events')].ret = ShotPath)
        => metadata' = metadata]_vars

\* C38: get_cached_path never touches the files, and changes the index in
\* memory and the index file only when the entry of the key is within the
\* TTL and its file is missing; on a hit, a miss and an expired entry all
\* three are left as they were.
C38_LookupFrame ==
    [][CallOf("get_cached_path")
        => LET k == keys[events'[Len(events')].req]
               orphaned == /\ cache_enabled
                           /\ k \in DOMAIN metadata
                           /\ Age(k) < cache_ttl_hours
                           /\ metadata[k].filename \notin DOMAIN files
           IN /\ files' = files
              /\ ~orphaned => (metadata' = metadata /\ persisted' = persisted)]_vars

\* a lookup has just met an expired entry whose file is gone, and the entry
\* is still in the index
C38_Witness ==
    /\ events # <<>>
    /\ LastEvent.op = "get_cached_path"
    /\ LastEvent.ret = None
    /\ cache_enabled
    /\ keys[LastEvent.req] \in DOMAIN metadata
    /\ Age(keys[LastEvent.req]) >= cache_ttl_hours
    /\ metadata[keys[LastEvent.req]].filename \notin DOMAIN files

\* this step is a call of cleanup_old_cache, forced or not
CallOfCleanup == CallOf("cleanup_old_cache") \/ CallOf("cleanup_old_cache(force)")

\* C40: cleanup_old_cache, in either mode, leaves every entry whose age is
\* below the TTL and whose file exists in the index, with its file.
C40_CleanupKeepsValid ==
    [][CallOfCleanup
        => \A k \in DOMAIN metadata :
              (Age(k) < cache_ttl_hours /\ metadata[k].filename \in DOMAIN files)
              => /\ k \in DOMAIN metadata'
                 /\ metadata'[k] = metadata[k]
                 /\ metadata[k].filename \in DOMAIN files'
                 /\ files'[metadata[k].filename] = files[metadata[k].filename]]_vars

\* a forced cleanup has just run over an entry an hour or more old, still
\* within the TTL, and the entry and its file are there
C40_Witness ==
    /\ events # <<>>
    /\ LastEvent.op = "cleanup_old_cache(force)"
    /\ \E k \in DOMAIN metadata :
          /\ Age(k) >= 1
          /\ Age(k) < cache_ttl_hours
          /\ metadata[k].filename \in DOMAIN files

C28_CacheFailureSwallowed == cap.raised # "CacheError"

\* the calls of one attempt as lines 98-166 write them down: the context, the
\* page, the navigation, every selector of wait_for, the extra wait, the
\* screenshot, the cache store
Plan ==
    <<Did("context", 0, TRUE), Did("page", 0, TRUE), Did("goto", 0, TRUE)>>
    \o [n \in 1..(IF cap.wait_for THEN MaxWaits ELSE 0) |-> Did("wait", n, TRUE)]
    \o (IF cap.extra_wait THEN <<Did("extra", 0, TRUE)>> ELSE <<>>)
    \o <<Did("shot", 0, TRUE)>>
    \o (IF cap.use_cache THEN <<Did("store", 0, TRUE)>> ELSE <<>>)

\* the calls of the latest attempt before its page.close()
Worked ==
    IF cap.log # <<>> /\ cap.log[Len(cap.log)].step = "close"
    THEN SubSeq(cap.log, 1, Len(cap.log) - 1)
    ELSE cap.log

\* C33: the calls of an attempt are a beginning of context, page,
\* navigation, the selectors of wait_for in their order, extra wait,
\* screenshot, cache store, each made only after all before it returned,
\* with page.close() after them: no screenshot before the navigation and every
\* selector succeeded, and no selector waited for after one that failed
C33_StepsInOrder ==
    LET made == Worked
        plan == Plan
    IN /\ Len(made) <= Len(plan)
       /\ \A i \in 1..Len(made) :
              /\ made[i].step = plan[i].step
              /\ made[i].n = plan[i].n
              /\ i < Len(made) => made[i].ok

\* an attempt with wait_for went through all its calls and closed its page
C33_Witness ==
    /\ cap.wait_for
    /\ Len(Worked) = Len(Plan)
    /\ Len(cap.log) = Len(Plan) + 1
    /\ \A i \in 1..Len(Worked) : Worked[i].ok

\* a capture_screenshot call is under way that goes past the cache
Bypassing ==
    /\ cap.pc \notin {"idle", "done"}
    /\ ~cap.use_cache \/ ~cache_enabled

\* C39: no step of a capture_screenshot call made with use_cache=False, or
\* while cache_enabled is False, changes the index in memory, the index file
\* or a file of the cache directory, and none makes the call a cache hit
C39_BypassLeavesCache ==
    [][Bypassing => /\ metadata' = metadata
                    /\ persisted' = persisted
                    /\ files' = files
                    /\ ~cap'.hit]_vars

\* a call with use_cache=False rendered and returned its screenshot while
\* the cache held the artifact that the call before had stored
C39_Witness ==
    /\ cap.pc = "done"
    /\ nCaptures = 2
    /\ ~cap.use_cache
    /\ cap.rendered
    /\ cap.ret = ShotPath
    /\ prev.stored
    /\ metadata # NoItems

\* C34: page.close() is called in an attempt only on the page that this
\* attempt opened, so that no page is closed a second time by a later
\* attempt that failed before opening its own
C34_ClosesOwnPage ==
    \A i \in 1..Len(cap.log) :
        cap.log[i].step = "close" =>
            \E j \in 1..(i - 1) : cap.log[j].step = "page" /\ cap.log[j].ok

\* ------------------------------------------------------- browse_and_extract
\* Strings are sequences of character codes, as in the key section.

\* the most entries extract_selectors has
MaxFields == 2

\* the names a caller may use: "a", "b", ...
FieldNames == {<<96 + n>> : n \in 1..MaxFields}

\* extract_selectors: a dict, so distinct names in insertion order
Mappings ==
    {f \in UNION {[1..n -> FieldNames] : n \in 0..MaxFields} :
        \A i, j \in DOMAIN f : i # j => f[i] # f[j]}

\* text_content() of the elements of the page, in document order:
\* " y\n" and "x"
Dom == << <<32, 121, 10>>, <<120>> >>

\* the subsequence of s at the positions in idx
RECURSIVE Pick(_, _, _)
Pick(s, idx, i) ==
    IF i > Len(s) THEN <<>>
    ELSE (IF i \in idx THEN <<s[i]>> ELSE <<>>) \o Pick(s, idx, i + 1)

\* the messages exceptions carry: "oops"
Messages == {<<111, 111, 112, 115>>}

\* what the body of the loop meets for one selector: an exception in
\* query_selector_all or text_content, or the texts of the matched elements
\* in document order
Queries ==
    {[kind |-> "raise", msg |-> m, texts |-> <<>>] : m \in Messages}
    \cup {[kind |-> "found", msg |-> <<>>, texts |-> Pick(Dom, idx, 1)] :
            idx \in SUBSET (1..Len(Dom))}

\* str.strip() without its work
StripNone(s) == s

Whitespace == {9, 10, 11, 12, 13, 28, 29, 30, 31, 32}

RECURSIVE LStrip(_)
LStrip(s) == IF s # <<>> /\ Head(s) \in Whitespace THEN LStrip(Tail(s)) ELSE s

RECURSIVE RStrip(_)
RStrip(s) ==
    IF s # <<>> /\ s[Len(s)] \in Whitespace
    THEN RStrip(SubSeq(s, 1, Len(s) - 1))
    ELSE s

\* str.strip()
Strip(s) == RStrip(LStrip(s))

TextList(items) == [t |-> "list", items |-> items]

\* f"Error: {str(e)}"
Marker(msg) == <<69, 114, 114, 111, 114, 58, 32>> \o msg

\* the loop body with the exception dropped
ExtractedNoMarker(q) ==
    IF q.kind = "raise" \/ q.texts = <<>> THEN None
    ELSE IF Len(q.texts) = 1 THEN Str(Strip(q.texts[1]))
    ELSE TextList([i \in 1..Len(q.texts) |-> Str(Strip(q.texts[i]))])

\* lines 242-252: the value stored for one field
Extracted(q) ==
    IF q.kind = "raise" THEN Str(Marker(q.msg))
    ELSE IF q.texts = <<>> THEN None
    ELSE IF Len(q.texts) = 1 THEN Str(Strip(q.texts[1]))
    ELSE TextList([i \in 1..Len(q.texts) |-> Str(Strip(q.texts[i]))])

\* d[k] = v on a dict held as its items in insertion order
SetItem(d, k, v) ==
    IF \E i \in DOMAIN d : d[i][1] = k
    THEN [i \in DOMAIN d |-> IF d[i][1] = k THEN <<k, v>> ELSE d[i]]
    ELSE Append(d, <<k, v>>)

\* an outer handler that lets the classified errors through
CatchesUnclassified(e) == e \notin BrowserErrors

\* line 262: `except Exception` (every exception of the model is one)
Catches(e) == TRUE

\* lines 262-264: the exception e with message m, raised by step, reaches
\* the outer handler
Caught(x, step, e, m) ==
    IF Catches(e)
    THEN [x EXCEPT !.pc = "e267", !.error = Str(m), !.failed = step]
    ELSE [x EXCEPT !.pc = "e267", !.raised = e, !.failed = step]

offExtract == <<keyVars, cacheVars, capVars, bat, conf, cli>>

ExtractInit ==
    /\ PoolState
    /\ serial = TRUE
    /\ max_contexts = 1
    /\ KeyAtRest
    /\ CacheAtRest
    /\ CaptureAtRest
    /\ CoreAtRest

\* lines 220-228: browse_and_extract is called
ExtractCall(f) ==
    /\ ext.pc \in {"idle", "done"}
    /\ Resumed
    /\ nCalls < MaxCalls
    /\ ext' = [NoExtract EXCEPT !.pc = "e230", !.fields = f]
    /\ UNCHANGED <<poolVars, offExtract>>

\* line 230: browser_manager.get_context() is called
ExtractGetContext ==
    /\ ext.pc = "e230"
    /\ CallGetContext(Caller)

\* line 230: get_context has returned a context or raised
ExtractGotContext(m) ==
    /\ ext.pc = "e230"
    /\ pc[Caller] = "done"
    /\ exc[Caller] = "none" <=> m = <<>>
    /\ ext' = IF exc[Caller] = "none"
              THEN [ext EXCEPT !.pc = "e231", !.ctx = ret[Caller]]
              ELSE Caught(ext, "get_context", exc[Caller], m)
    /\ UNCHANGED <<poolVars, offExtract>>

\* the frame of get_context is left
ExtractResume ==
    /\ ext.pc # "e230"
    /\ Return(Caller)

\* line 231: context.new_page()
ExtractNewPage(o, m) ==
    /\ ext.pc = "e231"
    /\ Resumed
    /\ o = "ok" <=> m = <<>>
    /\ IF o = "ok"
       THEN /\ pages' = [pages EXCEPT ![ext.ctx] = @ + 1]
            /\ ext' = [ext EXCEPT !.pc = "e234", !.page = ext.ctx, !.open = TRUE,
                                  !.left = @ + 1]
       ELSE /\ pages' = pages
            /\ ext' = Caught(ext, "new_page", o, m)
    /\ UNCHANGED <<poolButPages, offExtract>>

\* line 234: page.goto
ExtractGoto(o, m) ==
    /\ ext.pc = "e234"
    /\ o = "ok" <=> m = <<>>
    /\ ext' = IF o = "ok" THEN [ext EXCEPT !.pc = "e237"]
              ELSE Caught(ext, "goto", o, m)
    /\ UNCHANGED <<poolVars, offExtract>>

\* lines 237-238: page.wait_for_selector if wait_for is given (wf)
ExtractWaitFor(wf, o, m) ==
    /\ ext.pc = "e237"
    /\ o = "ok" <=> m = <<>>
    /\ ~wf => o = "ok"
    /\ ext' = IF o = "ok" THEN [ext EXCEPT !.pc = "e241"]
              ELSE Caught(ext, "wait_for", o, m)
    /\ UNCHANGED <<poolVars, offExtract>>

\* lines 241-252: one turn of the loop, for the next item of the mapping
ExtractField(q) ==
    /\ ext.pc = "e241"
    /\ Len(ext.seen) < Len(ext.fields)
    /\ LET name == ext.fields[Len(ext.seen) + 1]
       IN ext' = [ext EXCEPT !.seen = Append(@, q),
                             !.extracted = SetItem(@, name, Extracted(q))]
    /\ UNCHANGED <<poolVars, offExtract>>

\* line 241: the mapping is exhausted
ExtractLoopEnd ==
    /\ ext.pc = "e241"
    /\ Len(ext.seen) = Len(ext.fields)
    /\ ext' = [ext EXCEPT !.pc = "e255"]
    /\ UNCHANGED <<poolVars, offExtract>>

\* lines 255-260: page.screenshot if screenshot is asked for (sc)
ExtractScreenshot(sc, o, m) ==
    /\ ext.pc = "e255"
    /\ o = "ok" <=> m = <<>>
    /\ ~sc => o = "ok"
    /\ ext' = IF o = "ok"
              THEN [ext EXCEPT !.pc = "e267",
                               !.shot = IF sc THEN ShotPath ELSE @]
              ELSE Caught(ext, "screenshot", o, m)
    /\ UNCHANGED <<poolVars, offExtract>>

\* lines 266-273: page.close() if a page is held, its failure swallowed;
\* then the result is returned, or the exception leaves
ExtractFinally(cl) ==
    LET closing == Closes(ext.page) /\ ext.open
        shut == closing /\ cl = "ok"
    IN /\ ext.pc = "e267"
       /\ Resumed
       /\ closing \/ cl = "ok"
       /\ pages' = IF shut THEN [pages EXCEPT ![ext.page] = @ - 1] ELSE pages
       /\ ext' = [ext EXCEPT !.pc = "done", !.ctx = 0, !.page = 0,
                             !.open = FALSE,
                             !.tried = closing,
                             !.left = IF shut THEN @ - 1 ELSE @,
                             !.lost = IF closing /\ ~shut THEN @ + 1 ELSE @]
       /\ UNCHANGED <<poolButPages, offExtract>>

ExtractNext ==
    \/ \E f \in Mappings : ExtractCall(f)
    \/ ExtractGetContext
    \/ GetContextPrune(Caller)
    \/ GetContextStore(Caller)
    \/ GetContextReuse(Caller)
    \/ GetContextLimit(Caller)
    \/ GetBrowserCheck(Caller)
    \/ GetBrowserStart(Caller)
    \/ GetBrowserLaunch(Caller)
    \/ GetBrowserReturn(Caller)
    \/ GetContextCreate(Caller)
    \/ GetContextLeastBusy(Caller)
    \/ \E m \in Messages \cup {<<>>} : ExtractGotContext(m)
    \/ ExtractResume
    \/ \E o \in {"ok", "Error"}, m \in Messages \cup {<<>>} : ExtractNewPage(o, m)
    \/ \E o \in {"ok", "Error"}, m \in Messages \cup {<<>>} : ExtractGoto(o, m)
    \/ \E wf \in BOOLEAN, o \in {"ok", "Error"}, m \in Messages \cup {<<>>} :
          ExtractWaitFor(wf, o, m)
    \/ \E q \in Queries : ExtractField(q)
    \/ ExtractLoopEnd
    \/ \E sc \in BOOLEAN, o \in {"ok", "Error"}, m \in Messages \cup {<<>>} :
          ExtractScreenshot(sc, o, m)
    \/ \E cl \in {"ok", "error"} : ExtractFinally(cl)

SpecExtract == ExtractInit /\ [][ExtractNext]_vars

\* ---------------------------------------------------------- extract claims
\* the steps before the loop
BeforeLoop == {"get_context", "new_page", "goto", "wait_for"}

\* the loop over the mapping has been left
LoopDone ==
    /\ ext.pc \in {"e255", "e267", "done"}
    /\ ext.failed \notin BeforeLoop

\* C22: browse_and_extract never raises: when context acquisition, page
\* open, navigation, the wait-for selector or the screenshot fails, the
\* call still returns its result, with the failure in the error field.
C22_FailuresAreData ==
    /\ ext.raised = "none"
    /\ (ext.pc = "done" /\ ext.failed # "none") => ext.error # None
    /\ (ext.pc = "done" /\ ext.failed = "none") => ext.error = None

\* a call whose get_context raised has returned, the message in error
C22_Witness ==
    /\ ext.pc = "done"
    /\ ext.failed = "get_context"
    /\ ext.error = Str(<<111, 111, 112, 115>>)
    /\ ext.raised = "none"

\* the value stored at position j is the kind of value the query's matches
\* call for
StoredFor(j) ==
    LET v == ext.extracted[j][2]
        n == Len(ext.seen[j].texts)
    IN /\ n = 0 => v = None
       /\ n = 1 => v.t = "str"
       /\ n > 1 => v.t = "list" /\ Len(v.items) = n

\* C23: an exception while querying or reading one field's elements is
\* stored as the inline error marker of that field only: every other field
\* of the mapping is still extracted, error stays empty, nothing is raised.
C23_FieldErrorInline ==
    /\ Len(ext.extracted) = Len(ext.seen)
    /\ LoopDone => Len(ext.seen) = Len(ext.fields)
    /\ \A i \in DOMAIN ext.seen :
          ext.seen[i].kind = "raise" =>
             /\ ext.extracted[i] =
                   <<ext.fields[i], Str(<<69, 114, 114, 111, 114, 58, 32>> \o ext.seen[i].msg)>>
             /\ \A j \in DOMAIN ext.seen :
                   ext.seen[j].kind = "found" =>
                      ext.extracted[j][1] = ext.fields[j] /\ StoredFor(j)
             /\ ext.failed = "none" => ext.error = None
             /\ ext.raised = "none"

\* the first field's query raised, the second was extracted, and the call
\* has returned with no error
C23_Witness ==
    /\ ext.pc = "done"
    /\ Len(ext.fields) = 2
    /\ Len(ext.seen) = 2
    /\ ext.seen[1].kind = "raise"
    /\ ext.seen[2].kind = "found"
    /\ Len(ext.seen[2].texts) = 1
    /\ ext.extracted[2][2].t = "str"
    /\ ext.error = None

\* v is t without its leading and trailing whitespace
IsTrimOf(v, t) ==
    \E a, b \in 0..Len(t) :
        /\ a + b <= Len(t)
        /\ v = SubSeq(t, a + 1, Len(t) - b)
        /\ \A k \in 1..a : t[k] \in Whitespace
        /\ \A k \in (Len(t) - b + 1)..Len(t) : t[k] \in Whitespace
        /\ v # <<>> => v[1] \notin Whitespace /\ v[Len(v)] \notin Whitespace

\* C24 as stated: no match gives None, one match the element's text, several
\* the list of the elements' texts in encounter order; fields in the
\* mapping's order.
C24_ValuesAreTexts ==
    \A i \in DOMAIN ext.seen :
        ext.seen[i].kind = "found" =>
           LET v == ext.extracted[i][2]
               texts == ext.seen[i].texts
           IN /\ ext.extracted[i][1] = ext.fields[i]
              /\ Len(texts) = 0 => v = None
              /\ Len(texts) = 1 => v = Str(texts[1])
              /\ Len(texts) > 1 =>
                    v = TextList([k \in 1..Len(texts) |-> Str(texts[k])])

\* C24: no match gives None, one match the element's text without its
\* leading and trailing whitespace, several the list of such texts in
\* encounter order; fields in the mapping's order.
C24_ValuesAreTrimmedTexts ==
    /\ Len(ext.extracted) = Len(ext.seen)
    /\ \A i \in DOMAIN ext.seen :
          /\ ext.extracted[i][1] = ext.fields[i]
          /\ ext.seen[i].kind = "found" =>
                LET v == ext.extracted[i][2]
                    texts == ext.seen[i].texts
                IN /\ Len(texts) = 0 => v = None
                   /\ Len(texts) = 1 => v.t = "str" /\ IsTrimOf(v.s, texts[1])
                   /\ Len(texts) > 1 =>
                         /\ v.t = "list"
                         /\ Len(v.items) = Len(texts)
                         /\ \A k \in 1..Len(texts) :
                               /\ v.items[k].t = "str"
                               /\ IsTrimOf(v.items[k].s, texts[k])

\* the mapping (b, a) on a page where b matches both elements and a the
\* first, whose text has whitespace around it
C24_Witness ==
    /\ ext.pc = "done"
    /\ ext.fields = << <<98>>, <<97>> >>
    /\ Len(ext.seen) = 2
    /\ ext.seen[1].texts = Dom
    /\ ext.seen[2].texts = << <<32, 121, 10>> >>
    /\ ext.extracted[1] = << <<98>>, TextList(<<Str(<<121>>), Str(<<120>>)>>) >>
    /\ ext.extracted[2] = << <<97>>, Str(<<121>>) >>

\* -------------------------------------------------------- batch_screenshots
\* capture_screenshot is taken here as one step with the outcomes SpecCapture
\* shows it to have: it returns output_path, returns None, or raises.

\* the most URLs a batch has
MaxUrls == 3

\* urls: a list of the URLs "a", "b", so repeats are allowed
UrlLists == UNION {[1..n -> Urls] : n \in 0..MaxUrls}

\* output_dir / f"{name_prefix}_{i:03d}_{int(time.time())}.png"
BatchPath(i) == [t |-> "path", dir |-> "batch", name |-> i]

\* what a capture_screenshot call with output_path given ends with: the
\* path (core.py 168), None (177), or one of the errors it lets through
\* (172, and the OSError of 80 and 91)
CaptureOutcomes ==
    {[kind |-> "path", e |-> "none"], [kind |-> "None", e |-> "none"]}
    \cup {[kind |-> "raise", e |-> e] : e \in BrowserErrors \cup {"OSError"}}

\* a delay after every capture
SleepsAlways(i, n, d) == d

\* line 323: i < len(urls) - 1 and delay_between > 0
Sleeps(i, n, d) == i < n - 1 /\ d

offBatch == <<poolVars, keyVars, cacheVars, capVars, ext, conf, cli>>

BatchInit ==
    /\ PoolAtRest
    /\ KeyAtRest
    /\ CacheAtRest
    /\ CaptureAtRest
    /\ CoreAtRest

\* batch_screenshots(us, delay_between=...) is entered; d: delay_between > 0
batch_screenshots(us, d) ==
    /\ bat.pc \in {"idle", "done"}
    /\ bat' = [NoBatch EXCEPT !.pc = "b303", !.urls = us, !.delay = d]

\* batch_screenshots is called by a program of its own
BatchCall(us, d) == batch_screenshots(us, d) /\ UNCHANGED offBatch

\* lines 298-305: output_dir.mkdir(parents=True, exist_ok=True); results = {}
BatchMkdir(o) ==
    /\ bat.pc = "b303"
    /\ bat' = IF o = "ok" THEN [bat EXCEPT !.pc = "b307"]
              ELSE [bat EXCEPT !.pc = "done", !.raised = "OSError",
                               !.failed = "mkdir"]
    /\ UNCHANGED offBatch

\* lines 307, 326: the next url of the list, or return results
BatchLoop ==
    /\ bat.pc = "b307"
    /\ bat' = IF bat.i < Len(bat.urls) THEN [bat EXCEPT !.pc = "b313"]
              ELSE [bat EXCEPT !.pc = "done"]
    /\ UNCHANGED offBatch

\* lines 308-320: capture_screenshot(url, output_path=...) and
\* results[url] = screenshot_path; an exception leaves batch_screenshots
BatchCapture(o) ==
    /\ bat.pc = "b313"
    /\ LET url == bat.urls[bat.i + 1]
           made == [bat EXCEPT !.outs = Append(@, o.kind),
                                 !.log = Append(@, "capture")]
       IN bat' = IF o.kind = "raise"
                 THEN [made EXCEPT !.pc = "done", !.raised = o.e,
                                     !.failed = "capture"]
                 ELSE [made EXCEPT !.pc = "b323",
                          !.results = SetItem(@, url, IF o.kind = "path"
                                                      THEN BatchPath(bat.i)
                                                      ELSE None)]
    /\ UNCHANGED offBatch

\* lines 323-324: time.sleep(delay_between / 1000) if another url follows
BatchDelay ==
    /\ bat.pc = "b323"
    /\ bat' = [bat EXCEPT !.pc = "b307", !.i = @ + 1,
                          !.log = IF Sleeps(bat.i, Len(bat.urls), bat.delay)
                                  THEN Append(@, "sleep") ELSE @]
    /\ UNCHANGED offBatch

BatchNext ==
    \/ \E us \in UrlLists, d \in BOOLEAN : BatchCall(us, d)
    \/ \E o \in {"ok", "error"} : BatchMkdir(o)
    \/ BatchLoop
    \/ \E o \in CaptureOutcomes : BatchCapture(o)
    \/ BatchDelay

SpecBatch == BatchInit /\ [][BatchNext]_vars

\* ------------------------------------------------------------ batch claims
\* C25: a batch that returns gives exactly one result per input URL
\* position, in input order, for every list of URLs, repeated URLs included.
C25_OneResultPerPosition ==
    (bat.pc = "done" /\ bat.raised = "none") =>
        /\ Len(bat.results) = Len(bat.urls)
        /\ \A k \in DOMAIN bat.urls : bat.results[k][1] = bat.urls[k]

\* C26: a failure of one URL's capture (None, or a classified error) does
\* not abort the batch: once the output directory is made the batch returns,
\* every URL has been attempted, and a failed URL is mapped to None.
C26_FailureDoesNotAbort ==
    (bat.pc = "done" /\ bat.failed # "mkdir") =>
        /\ bat.raised = "none"
        /\ Len(bat.outs) = Len(bat.urls)
        /\ \A k \in DOMAIN bat.outs :
              bat.outs[k] # "path" =>
                 \E j \in DOMAIN bat.results :
                    bat.results[j] = <<bat.urls[k], None>>

\* the sleeps of the log
NSleeps == Cardinality({k \in DOMAIN bat.log : bat.log[k] = "sleep"})

\* C27: with a positive delay the captures are made one after another, each
\* sleep lies between two consecutive captures, none follows the last
\* capture, and a batch whose n captures were all made has slept exactly
\* n - 1 times.
C27_SleepsBetweenCaptures ==
    bat.delay =>
        /\ \A k \in DOMAIN bat.log :
              bat.log[k] = IF k % 2 = 1 THEN "capture" ELSE "sleep"
        /\ Len(bat.outs) = Len(bat.urls) =>
              /\ Len(bat.log) = IF Len(bat.urls) = 0 THEN 0 ELSE 2 * Len(bat.urls) - 1
              /\ Len(bat.urls) > 0 => NSleeps = Len(bat.urls) - 1
        /\ bat.pc = "done" => (bat.log = <<>> \/ bat.log[Len(bat.log)] = "capture")
        /\ bat.pc = "b313" => Len(bat.log) = 2 * bat.i

\* a batch of three URLs with a delay has returned after two sleeps
C27_Witness ==
    /\ bat.pc = "done"
    /\ bat.raised = "none"
    /\ bat.delay
    /\ Len(bat.urls) = 3
    /\ bat.log = <<"capture", "sleep", "capture", "sleep", "capture">>

\* ------------------------------------------------- BrowserConfig.update
\* the most keyword arguments of one update call
MaxKwargs == 2

\* the keys a caller passes: options, names of methods, and a name the
\* class does not have
ConfigKeys == DOMAIN Defaults \cup Methods \cup {"bogus"}

\* **kwargs: keys with their values in the order written, no key twice
Kwargs ==
    {kw \in UNION {[1..n -> ConfigKeys \X {0, 1}] : n \in 0..MaxKwargs} :
        \A i, j \in DOMAIN kw : kw[i][1] = kw[j][1] => i = j}

\* line 65: hasattr(self, key), true of every attribute of the instance and
\* of its class
HasAttr(attrs, key) == key \in DOMAIN attrs

RECURSIVE update(_, _)
\* lines 64-68: the loop over kwargs.items(): setattr for a key hasattr
\* finds, ValueError at the first key it does not find
update(attrs, kwargs) ==
    IF kwargs = <<>> THEN [attrs |-> attrs, raised |-> "none"]
    ELSE IF HasAttr(attrs, kwargs[1][1])
    THEN update([attrs EXCEPT ![kwargs[1][1]] = kwargs[1][2]], Tail(kwargs))
    ELSE [attrs |-> attrs, raised |-> "ValueError"]

offConfig == <<poolVars, keyVars, cacheVars, capVars, ext, bat, cli>>

ConfigInit ==
    /\ PoolAtRest
    /\ KeyAtRest
    /\ CacheAtRest
    /\ CaptureAtRest
    /\ CoreAtRest

\* set_config(**kw): browser_config.update(**kw) (line 83); once update has
\* been assigned a value, the attribute is no longer callable
SetConfig(kw) ==
    /\ LET r == IF conf.attrs["update"] # -1
                THEN [attrs |-> conf.attrs, raised |-> "TypeError"]
                ELSE update(conf.attrs, kw)
       IN conf' = [attrs |-> r.attrs, kwargs |-> kw, before |-> conf.attrs,
                   raised |-> r.raised]
    /\ UNCHANGED offConfig

ConfigNext == \E kw \in Kwargs : SetConfig(kw)

SpecConfig == ConfigInit /\ [][ConfigNext]_vars

\* ----------------------------------------------------------- config claims
\* C31: a set_config call with a key that is not one of the recognised
\* options raises the configuration error (ValueError).
C31_UnknownKeyRejected ==
    (\E i \in DOMAIN conf.kwargs : conf.kwargs[i][1] \notin DOMAIN Defaults)
        => conf.raised = "ValueError"

\* C37: an update rejected for an unknown key has changed no attribute of
\* the configuration, wherever the key stands among the arguments.
C37_RejectedUpdateChangesNothing ==
    conf.raised = "ValueError" => conf.attrs = conf.before

\* ------------------------------------------------------------ cli.main
\* capture_screenshot is one step here, as in batch_screenshots; the batch
\* mode runs the steps of batch_screenshots.

\* lines of a batch file: "a", "b", a comment, a blank line
BatchLines == {<<97, 10>>, <<98, 10>>, <<35, 97, 10>>, <<10>>}

\* batch files of up to MaxUrls lines
BatchFiles == UNION {[1..n -> BatchLines] : n \in 0..MaxUrls}

RECURSIVE ReadUrls(_)
\* lines 139-144: the stripped lines that are neither empty nor comments
ReadUrls(lines) ==
    IF lines = <<>> THEN <<>>
    ELSE LET line == Strip(lines[1])
         IN (IF line # <<>> /\ line[1] # 35 THEN <<line>> ELSE <<>>)
            \o ReadUrls(Tail(lines))

\* main has returned or sys.exit was called: the exit code of the process
Exit(c, code) == [c EXCEPT !.pc = "exited", !.code = code]

\* lines 161-166: the results are counted and printed, and main returns
BatchExit(results) == 0

offCli == <<poolVars, keyVars, cacheVars, capVars, ext, conf>>

CliInit ==
    /\ PoolAtRest
    /\ KeyAtRest
    /\ CacheAtRest
    /\ CaptureAtRest
    /\ CoreAtRest

\* lines 122-132: parse_args and the validation; u: a URL is given, b:
\* --batch is given; parser.error exits with 2
CliMain(u, b) ==
    /\ cli.pc \in {"idle", "exited"}
    /\ cli' = IF u = b THEN Exit(NoCli, 2)
              ELSE IF b THEN [NoCli EXCEPT !.pc = "m134", !.mode = "batch"]
              ELSE [NoCli EXCEPT !.pc = "m172", !.mode = "single"]
    /\ bat' = NoBatch
    /\ UNCHANGED offCli

\* lines 134-150: the batch file is missing, or holds no URL, or is read
CliReadBatch(exists, lines) ==
    /\ cli.pc = "m134"
    /\ exists \/ lines = <<>>
    /\ cli' = IF ~exists \/ ReadUrls(lines) = <<>> THEN Exit(cli, 1)
              ELSE [cli EXCEPT !.pc = "m152", !.urls = ReadUrls(lines)]
    /\ UNCHANGED <<offCli, bat>>

\* lines 152-158: results = batch_screenshots(urls, ..., delay_between=args.delay)
CliBatch(d) ==
    /\ cli.pc = "m152"
    /\ batch_screenshots(cli.urls, d)
    /\ cli' = [cli EXCEPT !.pc = "m161"]
    /\ UNCHANGED offCli

\* lines 161-166 and 194-196: batch_screenshots has returned its results,
\* or raised
CliBatchDone ==
    /\ cli.pc = "m161"
    /\ bat.pc = "done"
    /\ cli' = IF bat.raised # "none" THEN Exit([cli EXCEPT !.got = "raise"], 1)
              ELSE Exit([cli EXCEPT !.got = "results"], BatchExit(bat.results))
    /\ UNCHANGED <<offCli, bat>>

\* lines 170-189 and 194-196: capture_screenshot(args.url, ...) and its
\* outcome
CliSingle(o) ==
    /\ cli.pc = "m172"
    /\ cli' = Exit([cli EXCEPT !.got = o.kind], IF o.kind = "path" THEN 0 ELSE 1)
    /\ UNCHANGED <<offCli, bat>>

\* lines 191-193: the user interrupts inside the try block of main, and
\* KeyboardInterrupt leaves batch_screenshots, if it is running
CliInterrupt ==
    /\ cli.pc \in {"m134", "m152", "m161", "m172"}
    /\ cli' = Exit([cli EXCEPT !.interrupted = TRUE], 130)
    /\ bat' = IF cli.pc = "m161"
              THEN [bat EXCEPT !.pc = "done", !.raised = "KeyboardInterrupt"]
              ELSE bat
    /\ UNCHANGED offCli

CliNext ==
    \/ \E u, b \in BOOLEAN : CliMain(u, b)
    \/ \E exists \in BOOLEAN, lines \in BatchFiles : CliReadBatch(exists, lines)
    \/ \E d \in BOOLEAN : CliBatch(d)
    \/ \E o \in {"ok", "error"} : BatchMkdir(o)
    \/ BatchLoop
    \/ \E o \in CaptureOutcomes : BatchCapture(o)
    \/ BatchDelay
    \/ CliBatchDone
    \/ \E o \in CaptureOutcomes : CliSingle(o)
    \/ CliInterrupt

SpecCli == CliInit /\ [][CliNext]_vars

\* -------------------------------------------------------------- cli claims
\* every capture that was asked for gave a screenshot
AllCaptured ==
    IF cli.mode = "single" THEN cli.got = "path"
    ELSE /\ cli.got = "results"
         /\ \A k \in DOMAIN bat.results : bat.results[k][2] # None

\* C32: the exit code is 0 only when every requested capture succeeded; a
\* batch in which a URL has no result exits with 1; a user interrupt
\* gives 130.
C32_ExitCodes ==
    cli.pc = "exited" =>
        /\ cli.code = 0 => AllCaptured
        /\ (cli.got = "results" /\ ~AllCaptured) => cli.code = 1
        /\ cli.interrupted => cli.code = 130

====
